---- MODULE Spec2Model ----
(***************************************************************************)
(* Model of the proxysmart monitoring scripts.                             *)
(*                                                                         *)
(*   Drift detector   src/delta/app.py (run_once_for_server) and           *)
(*                    src/proxysmart_modems_list.py (run_once)             *)
(*   Recovery ladder  src/ping/app.py and src/proxysmart_modems_check.py   *)
(*                    (process_server / main_async, recover_one_modem)     *)
(*   Flag policy      src/ping/app.py (is_offline on the raw fields)        *)
(*   Daily run lock   src/speed/app.py (db_start_run, run_for_server, main) *)
(*   State file       src/delta/app.py (save_state, load_state)             *)
(*                                                                         *)
(* A Python dict entry that may be missing is a sequence of length 0 or 1. *)
(***************************************************************************)
EXTENDS Integers, Sequences, FiniteSets, TLC

\* the entries of a sequence, as a set
Range(q) == {q[i] : i \in 1..Len(q)}

\* ------------------------------------------------------------------ bounds
MaxCount == 2
MaxTime == 4
MaxCycles == 5
MaxPasses == 2

\* MG_DRIFT_CONFIRM_SECONDS, in clock ticks of the model
DRIFT_CONFIRM_SECONDS == 2

Counts == 0..MaxCount

\* ------------------------------------------------------------ drift state
VARIABLES
    file,       \* modems_state.json: <<>> while it does not exist, else <<state>>
    now,        \* the wall clock, int(time.time())
    cycles,     \* completed runs of run_once / run_once_for_server
    lastObs,    \* history: result of fetch_modem_count in the last cycle (<<>> = None)
    lastEvent,  \* history: the confirmation message sent by the last cycle, if any
    loaded,     \* history: the dict load_state returned in the last cycle, if called
    wrote,      \* history: the state handed to save_state by the last cycle, if any,
                \*          and whether the write succeeded
    faulted,    \* history: some load_state or save_state has failed so far
    run,        \* history: the current run of equal successful observations
    flap,       \* history: the count returned to last_count inside the window
    lastReset,  \* history: the last restart of the confirmation window
    misread,    \* history: some load_state has failed so far
    told,       \* history: the last confirmation message sent so far, if any
    delivered,  \* history: whether Telegram accepted the message of the last cycle
    mon         \* the drift monitor over several fleets: the state directory and the
                \* pass of main over the servers

driftVars == <<file, now, cycles, lastObs, lastEvent, loaded, wrote, faulted, run, flap,
               lastReset, misread, told, delivered, mon>>

\* --------------------------------------------------------- recovery state
VARIABLES
    ppc,        \* process_server: the await it is suspended at
    dead1,      \* process_server: IMEIs offline in the first poll, in snapshot order
    dead2,      \* process_server: IMEIs still offline (or gone) in the second poll
    tasks,      \* the recover_one_modem tasks, one per entry of dead2
    sweepLog,   \* history: the messages process_server itself handed to tg_send
    seen2,      \* history: how the second poll showed each IMEI (<<>> before it)
    lost        \* history: some tg_send of the sweep failed to deliver its message

recoveryVars == <<ppc, dead1, dead2, tasks, sweepLog, seen2, lost>>

\* ------------------------------------------------------ daily run state
VARIABLES
    retry,      \* RETRY_FAILED_RUN, read from the environment at start
    row,        \* speedtest_runs: the row of one (server_id, run_date_local), <<>> if none
    wk,         \* the scheduler processes (workers) racing for that row
    sched       \* main of one scheduler process: its loop, its threads, its last error

speedVars == <<retry, row, wk, sched>>

\* ------------------------------------------------- the state file on disk
VARIABLES
    disk,       \* the state directory: for each path <<>> (no file) or <<text>>
    spc,        \* save_state: the statement it is at
    job         \* save_state: its argument `state`

saveVars == <<disk, spc, job>>

\* ------------------------------------------------ the classifier's input
VARIABLES
    raw,        \* one record of show_status_json with its fields as the vendor sent them
    verdict     \* the policy's classification of raw once it was called, <<>> before

classVars == <<raw, verdict>>

vars == <<driftVars, recoveryVars, speedVars, saveVars, classVars>>

\* the dict load_state returns when there is no file or it cannot be read
EmptyState == [last_count |-> <<>>, pending |-> <<>>]

Pending(v, t) == <<[value |-> v, first_seen |-> t]>>

\* variant: a file that cannot be read or parsed gives the state last written
load_state_keep(f, readable) ==
    IF Len(f) > 0 THEN f[1] ELSE EmptyState

\* load_state: the file's content, or {} when it is missing or unreadable
load_state(f, readable) ==
    IF readable /\ Len(f) > 0 THEN f[1] ELSE EmptyState

\* save_state: temp file then replace; on an exception the old file stays
save_state(f, state, writable) ==
    IF writable THEN <<state>> ELSE f

\* variant: the window compared with > instead of >=
WindowElapsed_strict(t, first_seen) == t - first_seen > DRIFT_CONFIRM_SECONDS

\* "if now - first_seen >= DRIFT_CONFIRM_SECONDS"
WindowElapsed(t, first_seen) == t - first_seen >= DRIFT_CONFIRM_SECONDS

\* state.get("last_count") is None
Uninitialized(state) == Len(state.last_count) = 0

\* "if pending:": a pending block is present
HasPending(state) == Len(state.pending) > 0

\* variant: "current or None", which loses an observation of 0
InitState_falsy(state, current) ==
    [last_count |-> IF current = 0 THEN <<>> ELSE <<current>>, pending |-> <<>>]

\* the initialisation branch: last_count := current, pending dropped
InitState(state, current) ==
    [last_count |-> <<current>>, pending |-> <<>>]

\* variant: last_count := pending_value without state.pop("pending")
ConfirmState_keep(state, pending_value) ==
    [state EXCEPT !.last_count = <<pending_value>>]

\* the confirmation branch: last_count := pending_value, pending dropped
ConfirmState(state, pending_value) ==
    [last_count |-> <<pending_value>>, pending |-> <<>>]

\* variant: the new value is recorded but the window of an existing pending block
\* is kept running
RestartPending_keep(state, current, t) ==
    [state EXCEPT !.pending =
        IF Len(state.pending) > 0
        THEN Pending(current, state.pending[1].first_seen)
        ELSE Pending(current, t)]

\* state["pending"] = {"value": current, "first_seen": now}
RestartPending(state, current, t) ==
    [state EXCEPT !.pending = Pending(current, t)]

\* the message "Bylo: last_count -> Stalo: pending_value"
DriftConfirmed(last_count, pending_value) ==
    <<[old |-> last_count, new |-> pending_value]>>

\* The decision of one cycle after a successful fetch: the new in-memory state,
\* the message sent (if any), whether save_state is called, and the branch taken.
Decide(state, current, t) ==
    IF Uninitialized(state)
    THEN [state |-> InitState(state, current), event |-> <<>>,
          save |-> TRUE, branch |-> "init"]
    ELSE IF HasPending(state)
    THEN LET pending_value == state.pending[1].value
             first_seen == state.pending[1].first_seen
         IN  IF current = pending_value
             THEN IF WindowElapsed(t, first_seen)
                  THEN [state |-> ConfirmState(state, pending_value),
                        event |-> DriftConfirmed(state.last_count[1], pending_value),
                        save |-> TRUE, branch |-> "confirmed"]
                  ELSE [state |-> state, event |-> <<>>,
                        save |-> FALSE, branch |-> "waiting"]
             ELSE [state |-> RestartPending(state, current, t), event |-> <<>>,
                   save |-> TRUE, branch |-> "changed"]
    ELSE IF current # state.last_count[1]
    THEN [state |-> RestartPending(state, current, t), event |-> <<>>,
          save |-> TRUE, branch |-> "detected"]
    ELSE [state |-> state, event |-> <<>>, save |-> FALSE, branch |-> "nochange"]

\* variant: a message Telegram does not accept ends the cycle before the state is saved
AfterSend_raise(d, sent) ==
    IF Len(d.event) > 0 /\ ~sent THEN [d EXCEPT !.save = FALSE] ELSE d

\* send_telegram_message returns None whether or not the message was delivered: the
\* cycle goes on with the decision it has taken
AfterSend(d, sent) == d

\* history: the run of equal successful observations the value `current` extends
NextRun(r, current, t) ==
    IF Len(r) > 0 /\ r[1].value = current
    THEN r
    ELSE <<[value |-> current, since |-> t]>>

\* history: the observation is back at last_count although a different value was
\* pending for less than the window, or it has stayed there since
NextFlap(fl, state, current, t) ==
    /\ ~Uninitialized(state)
    /\ current = state.last_count[1]
    /\ \/ fl
       \/ /\ HasPending(state)
          /\ state.pending[1].value # current
          /\ t - state.pending[1].first_seen < DRIFT_CONFIRM_SECONDS

\* the fleets of servers.yaml, in its order, by their id
FleetIds == <<"a", "b">>

\* variant: every fleet keeps its state in the same directory
state_paths_for_shared(server_id) == "a"

\* state_paths_for: STATE_BASE / server_id, a directory of its own for every id
state_paths_for(server_id) == server_id

\* Before the first cycle: no state file. Before main runs: no state file in any
\* directory, the pass at the first server, no run_once_for_server called or raised.
DriftInit ==
    /\ file = <<>>
    /\ now = 0
    /\ cycles = 0
    /\ lastObs = <<>>
    /\ lastEvent = <<>>
    /\ loaded = <<>>
    /\ wrote = <<>>
    /\ faulted = FALSE
    /\ run = <<>>
    /\ flap = FALSE
    /\ lastReset = <<>>
    /\ misread = FALSE
    /\ told = <<>>
    /\ delivered = <<>>
    /\ mon = [files |-> [d \in Range(FleetIds) |-> <<>>], i |-> 1, called |-> {},
              raised |-> {}, passes |-> 0]

\* variant: a failed poll drops the pending block
FetchFailed_forget ==
    /\ cycles < MaxCycles
    /\ cycles' = cycles + 1
    /\ lastObs' = <<>>
    /\ lastEvent' = <<>>
    /\ loaded' = <<>>
    /\ wrote' = <<>>
    /\ delivered' = <<>>
    /\ file' = IF Len(file) > 0 THEN <<[file[1] EXCEPT !.pending = <<>>]>> ELSE file
    /\ UNCHANGED <<now, faulted, run, flap, lastReset, misread, told, mon, recoveryVars,
                   speedVars, saveVars, classVars>>

\* fetch_modem_count returned None: the cycle is skipped
FetchFailed ==
    /\ cycles < MaxCycles
    /\ cycles' = cycles + 1
    /\ lastObs' = <<>>
    /\ lastEvent' = <<>>
    /\ loaded' = <<>>
    /\ wrote' = <<>>
    /\ delivered' = <<>>
    /\ UNCHANGED <<file, now, faulted, run, flap, lastReset, misread, told, mon,
                   recoveryVars, speedVars, saveVars, classVars>>

\* run_once / run_once_for_server from the answer `current` of the fetch on, with a
\* state file that can be read (readable) and written (writable) or not
Cycle(current, readable, writable) ==
        LET state == load_state(file, readable)
            decided == Decide(state, current, now)
        IN  \E sent \in IF decided.event # <<>> THEN BOOLEAN ELSE {TRUE} :
            LET d == AfterSend(decided, sent)
            IN  /\ lastObs' = <<current>>
                /\ lastEvent' = d.event
                /\ loaded' = <<state>>
                /\ wrote' = IF d.save THEN <<[state |-> d.state, ok |-> writable]>> ELSE <<>>
                /\ file' = IF d.save THEN save_state(file, d.state, writable) ELSE file
                /\ faulted' = (faulted \/ (Len(file) > 0 /\ ~readable) \/ (d.save /\ ~writable))
                /\ run' = NextRun(run, current, now)
                /\ flap' = NextFlap(flap, state, current, now)
                /\ lastReset' = IF d.branch = "changed"
                                 THEN <<[value |-> current, at |-> now]>>
                                 ELSE lastReset
                /\ misread' = (misread \/ (Len(file) > 0 /\ ~readable))
                /\ told' = IF d.event # <<>> THEN d.event ELSE told
                /\ delivered' = IF d.event # <<>> THEN <<sent>> ELSE <<>>
                /\ UNCHANGED <<now, mon, recoveryVars, speedVars, saveVars, classVars>>

\* one run of run_once / run_once_for_server with a successful fetch
RunOnce ==
    /\ cycles < MaxCycles
    /\ cycles' = cycles + 1
    /\ \E current \in Counts, readable \in BOOLEAN, writable \in BOOLEAN :
        Cycle(current, readable, writable)

\* variant: the confirmation branch with the state saved before the message is sent,
\* and the process ended between the two
CrashAfterSend_savefirst ==
    /\ cycles < MaxCycles
    /\ cycles' = cycles + 1
    /\ \E current \in Counts :
        LET state == load_state(file, TRUE)
            decided == Decide(state, current, now)
        IN  /\ decided.branch = "confirmed"
            /\ lastObs' = <<current>>
            /\ lastEvent' = <<>>
            /\ loaded' = <<state>>
            /\ wrote' = <<[state |-> decided.state, ok |-> TRUE]>>
            /\ file' = save_state(file, decided.state, TRUE)
            /\ faulted' = TRUE
            /\ run' = NextRun(run, current, now)
            /\ flap' = NextFlap(flap, state, current, now)
            /\ delivered' = <<>>
            /\ UNCHANGED <<told, lastReset, misread, now, mon, recoveryVars, speedVars,
                           saveVars, classVars>>

\* a run that takes the confirmation branch and whose process ends (killed, power
\* lost) after send_telegram_message has returned and before save_state is called:
\* the message has been attempted, the state file is as it was
CrashAfterSend ==
    /\ cycles < MaxCycles
    /\ cycles' = cycles + 1
    /\ \E current \in Counts, sent \in BOOLEAN :
        LET state == load_state(file, TRUE)
            decided == Decide(state, current, now)
        IN  /\ decided.branch = "confirmed"
            /\ lastObs' = <<current>>
            /\ lastEvent' = decided.event
            /\ loaded' = <<state>>
            /\ wrote' = <<>>
            /\ file' = file
            /\ faulted' = TRUE
            /\ run' = NextRun(run, current, now)
            /\ flap' = NextFlap(flap, state, current, now)
            /\ told' = decided.event
            /\ delivered' = <<sent>>
            /\ UNCHANGED <<lastReset, misread, now, mon, recoveryVars, speedVars,
                           saveVars, classVars>>

\* a run with a successful fetch that observes what the run before it observed (any
\* value, if this is the first); the runs are not counted
StableCycle ==
    /\ \E current \in Counts, readable \in BOOLEAN, writable \in BOOLEAN :
        /\ lastObs = <<>> \/ lastObs = <<current>>
        /\ Cycle(current, readable, writable)
    /\ UNCHANGED cycles

\* ------------------------------------------- the drift monitor over several fleets
\* src/delta/app.py main: "for srv in servers: try: run_once_for_server(...) except
\* Exception: log".

\* variant: an exception of one server leaves the for loop
OnFleetError_abort(i) == Len(FleetIds) + 1

\* main: the except branch logs, the for loop goes on with the next server
OnFleetError(i) == i + 1

\* main: run_once_for_server raises (a key missing in the server entry, a port that is
\* no number, a logger that cannot open its file) before it has touched the state
DriftFleetRaised ==
    /\ mon.i <= Len(FleetIds)
    /\ mon' = [mon EXCEPT !.i = OnFleetError(mon.i),
                           !.called = @ \cup {FleetIds[mon.i]},
                           !.raised = @ \cup {FleetIds[mon.i]}]
    /\ UNCHANGED <<file, now, cycles, lastObs, lastEvent, loaded, wrote, faulted, run, flap,
                   lastReset, misread, told, delivered, recoveryVars, speedVars, saveVars,
                   classVars>>

\* main: run_once_for_server returns early, fetch_modem_count gave None
DriftFleetSkipped ==
    /\ mon.i <= Len(FleetIds)
    /\ mon' = [mon EXCEPT !.i = @ + 1, !.called = @ \cup {FleetIds[mon.i]}]
    /\ UNCHANGED <<file, now, cycles, lastObs, lastEvent, loaded, wrote, faulted, run, flap,
                   lastReset, misread, told, delivered, recoveryVars, speedVars, saveVars,
                   classVars>>

\* main: run_once_for_server for the next server, with a successful fetch
DriftFleetCycle ==
    /\ mon.i <= Len(FleetIds)
    /\ \E current \in Counts, readable \in BOOLEAN, writable \in BOOLEAN :
        LET dir == state_paths_for(FleetIds[mon.i])
            state == load_state(mon.files[dir], readable)
            d == Decide(state, current, now)
        IN  mon' = [mon EXCEPT !.i = @ + 1, !.called = @ \cup {FleetIds[mon.i]},
                               !.files[dir] = IF d.save
                                              THEN save_state(@, d.state, writable)
                                              ELSE @]
    /\ UNCHANGED <<file, now, cycles, lastObs, lastEvent, loaded, wrote, faulted, run, flap,
                   lastReset, misread, told, delivered, recoveryVars, speedVars, saveVars,
                   classVars>>

\* main returns after the last server; the timer starts the next pass
DriftPassEnd ==
    /\ mon.i = Len(FleetIds) + 1
    /\ mon.passes < MaxPasses
    /\ mon' = [mon EXCEPT !.i = 1, !.called = {}, !.raised = {}, !.passes = @ + 1]
    /\ UNCHANGED <<file, now, cycles, lastObs, lastEvent, loaded, wrote, faulted, run, flap,
                   lastReset, misread, told, delivered, recoveryVars, speedVars, saveVars,
                   classVars>>

\* the clock advances between (or during) cycles
Tick ==
    /\ now < MaxTime
    /\ now' = now + 1
    /\ UNCHANGED <<file, cycles, lastObs, lastEvent, loaded, wrote, faulted, run, flap,
                   lastReset, misread, told, delivered, mon, recoveryVars, speedVars,
                   saveVars, classVars>>

\* ------------------------------------------------------- recovery ladder
MaxModems == 2

ImeiSet == {1, 2}

\* modem_key gives "" for a record without IMEI
NoImei == 0

\* One record of show_status_json, reduced to what the recovery flow reads: the IMEI,
\* the IS_ONLINE indicator as coerced by is_offline, and whether one of IS_LOCKED /
\* IS_REBOOTING / IS_ROTATED is "true". (check_battery_levels reads android.battery
\* and only sends messages; it takes no part in the recovery flow and is left out.)
Devices == [imei : ImeiSet \cup {NoImei}, online : BOOLEAN, busy : BOOLEAN]

Snapshots == UNION {[1..n -> Devices] : n \in 0..MaxModems}

\* the ladder, in order
Steps == <<"reset", "reboot", "usb_reset">>

is_offline(m) ==
    IF m.online THEN FALSE
    ELSE IF m.busy THEN FALSE
    ELSE TRUE

\* index_by_imei: the last record of each non-empty IMEI
index_by_imei(modems) ==
    [imei \in {modems[i].imei : i \in 1..Len(modems)} \ {NoImei} |->
        modems[CHOOSE i \in 1..Len(modems) :
                  /\ modems[i].imei = imei
                  /\ \A j \in 1..Len(modems) : modems[j].imei = imei => j <= i]]

\* the first pass of process_server: records with an IMEI that are offline
FirstPass(modems) ==
    LET off == SelectSeq(modems, LAMBDA m : m.imei # NoImei /\ is_offline(m))
    IN  [i \in 1..Len(off) |-> off[i].imei]

\* variant: the second pass classifies the second snapshot afresh
SecondPass_repoll(d1, modems2) == FirstPass(modems2)

\* variant: no second pass, the provisional list is taken as confirmed
SecondPass_keep(d1, modems2) == d1

\* the second pass: entries of dead1 gone from, or still offline in, modems2
SecondPass(d1, modems2) ==
    LET idx2 == index_by_imei(modems2)
    IN  SelectSeq(d1, LAMBDA imei : imei \notin DOMAIN idx2 \/ is_offline(idx2[imei]))

\* history: what idx2.get(imei) and is_offline say of each IMEI in the second poll
Seen(modems2) ==
    LET idx2 == index_by_imei(modems2)
    IN  [imei \in ImeiSet |->
            IF imei \notin DOMAIN idx2 THEN "absent"
            ELSE IF is_offline(idx2[imei]) THEN "offline"
            ELSE "alive"]

\* variant: the recheck looks at IS_ONLINE only
check_modem_alive_online(m) == Len(m) > 0 /\ m[1].online

\* check_modem_alive after a successful fetch_status: m is index_by_imei(...).get(imei),
\* <<>> when the IMEI is not in the snapshot
check_modem_alive(m) == Len(m) > 0 /\ ~is_offline(m[1])

\* A task: its IMEI, the await it is suspended at, the step of the ladder it is in,
\* the history of what it did, and (history) whether fetch_status raised inside the
\* check_modem_alive it has just returned from.
NewTask(imei) == [imei |-> imei, pc |-> "notify", k |-> 1, trace |-> <<>>, raised |-> FALSE]

\* variant: the "return" after a successful recheck is missing
AfterCheck_fallthrough(k, alive) ==
    IF k < Len(Steps) THEN [pc |-> "notify", k |-> k + 1]
    ELSE [pc |-> "giveup_notify", k |-> k]

\* variant: the ladder ends silently after the last failed recheck
AfterCheck_silent(k, alive) ==
    IF alive THEN [pc |-> "ok_notify", k |-> k]
    ELSE IF k < Len(Steps) THEN [pc |-> "notify", k |-> k + 1]
    ELSE [pc |-> "done", k |-> k]

\* where the ladder goes after the recheck of step k
AfterCheck(k, alive) ==
    IF alive THEN [pc |-> "ok_notify", k |-> k]
    ELSE IF k < Len(Steps) THEN [pc |-> "notify", k |-> k + 1]
    ELSE [pc |-> "giveup_notify", k |-> k]

\* variant: the failure of the action request is swallowed
AfterAction_swallow(k, ok) == [pc |-> "sleep", k |-> k]

\* variant: the settle wait is skipped
AfterAction_nowait(k, ok) ==
    IF ok THEN [pc |-> "check", k |-> k]
    ELSE [pc |-> "err_notify", k |-> k]

\* where the ladder goes after the action request of step k
AfterAction(k, ok) ==
    IF ok THEN [pc |-> "sleep", k |-> k]
    ELSE [pc |-> "err_notify", k |-> k]

\* variant: the exception of fetch_status reaches recover_one_modem
OnRecheckError_raise(k) == [pc |-> "err_notify", k |-> k]

\* check_modem_alive's except branch returns False: the recheck counts as not alive
OnRecheckError(k) == AfterCheck(k, FALSE)

\* variant: a message Telegram does not accept raises into recover_one_modem
AfterNotify_raise(to, accepted) ==
    IF accepted THEN to ELSE [pc |-> "err_notify", k |-> to.k]

\* tg_send returns None whether or not the message was delivered (it logs a status
\* other than 200 and swallows every exception): the task goes where it was going
AfterNotify(to, accepted) == to

\* variant: the sequences are awaited one after another instead of as tasks
Advance_serial(i, to, ev, exc) ==
    /\ \A j \in 1..(i - 1) : tasks[j].pc = "done"
    /\ tasks' = [tasks EXCEPT ![i] = [@ EXCEPT !.pc = to.pc, !.k = to.k,
                                                !.trace = Append(@, ev),
                                                !.raised = exc]]

\* one await of task i returns: the task moves on and records what it did
Advance(i, to, ev, exc) ==
    tasks' = [tasks EXCEPT ![i] = [@ EXCEPT !.pc = to.pc, !.k = to.k,
                                             !.trace = Append(@, ev),
                                             !.raised = exc]]

RecoveryInit ==
    /\ ppc = "fetch1"
    /\ dead1 = <<>>
    /\ dead2 = <<>>
    /\ tasks = <<>>
    /\ sweepLog = <<>>
    /\ seen2 = <<>>
    /\ lost = FALSE

\* process_server: the first fetch_status raises
Fetch1Failed ==
    /\ ppc = "fetch1"
    /\ ppc' = "done"
    /\ UNCHANGED <<lost, dead1, dead2, seen2, tasks, sweepLog, driftVars, speedVars, saveVars, classVars>>

\* process_server: first poll and first pass
Fetch1 ==
    /\ ppc = "fetch1"
    /\ \E modems \in Snapshots :
        /\ dead1' = FirstPass(modems)
        /\ ppc' = IF FirstPass(modems) = <<>> THEN "done" ELSE "sleep"
        /\ UNCHANGED <<lost, dead2, seen2, tasks, sweepLog, driftVars, speedVars, saveVars, classVars>>

\* process_server: asyncio.sleep(doublecheck_seconds)
DoubleCheckSleep ==
    /\ ppc = "sleep"
    /\ ppc' = "fetch2"
    /\ UNCHANGED <<lost, dead1, dead2, seen2, tasks, sweepLog, driftVars, speedVars, saveVars, classVars>>

\* variant: a failed second poll takes the provisional list as confirmed
Fetch2Failed_confirm ==
    /\ ppc = "fetch2"
    /\ ppc' = "notify"
    /\ dead2' = dead1
    /\ UNCHANGED <<lost, dead1, seen2, tasks, sweepLog, driftVars, speedVars, saveVars, classVars>>

\* process_server: the second fetch_status raises
Fetch2Failed ==
    /\ ppc = "fetch2"
    /\ ppc' = "done"
    /\ UNCHANGED <<lost, dead1, dead2, seen2, tasks, sweepLog, driftVars, speedVars, saveVars, classVars>>

\* process_server: second poll and second pass
Fetch2 ==
    /\ ppc = "fetch2"
    /\ \E modems2 \in Snapshots :
        /\ dead2' = SecondPass(dead1, modems2)
        /\ seen2' = Seen(modems2)
        /\ ppc' = IF SecondPass(dead1, modems2) = <<>> THEN "done" ELSE "notify"
        /\ UNCHANGED <<lost, dead1, tasks, sweepLog, driftVars, speedVars, saveVars, classVars>>

\* process_server: the summary message, then one task per entry of dead2
Spawn ==
    /\ ppc = "notify"
    /\ sweepLog' = Append(sweepLog, [kind |-> "offline", imeis |-> dead2])
    /\ tasks' = [i \in 1..Len(dead2) |-> NewTask(dead2[i])]
    /\ ppc' = "gather"
    /\ \E accepted \in BOOLEAN : lost' = (lost \/ ~accepted)
    /\ UNCHANGED <<dead1, dead2, seen2, driftVars, speedVars, saveVars, classVars>>

\* process_server: asyncio.gather returns when every task has ended
Gather ==
    /\ ppc = "gather"
    /\ \A i \in 1..Len(tasks) : tasks[i].pc = "done"
    /\ ppc' = "done"
    /\ UNCHANGED <<lost, dead1, dead2, seen2, tasks, sweepLog, driftVars, speedVars, saveVars, classVars>>

\* recover_one_modem: the message announcing step k
StartNotify(i) ==
    /\ tasks[i].pc = "notify"
    /\ \E accepted \in BOOLEAN :
        /\ Advance(i, AfterNotify([pc |-> "act", k |-> tasks[i].k], accepted),
                   <<"notify", Steps[tasks[i].k], "start">>, FALSE)
        /\ lost' = (lost \/ ~accepted)
    /\ UNCHANGED <<ppc, dead1, dead2, seen2, sweepLog, driftVars, speedVars, saveVars, classVars>>

\* recover_one_modem: action_reset / action_reboot / action_usb_reset
Action(i) ==
    /\ tasks[i].pc = "act"
    /\ \E ok \in BOOLEAN :
        /\ Advance(i, AfterAction(tasks[i].k, ok),
                   <<"act", Steps[tasks[i].k], IF ok THEN "ok" ELSE "failed">>, FALSE)
        /\ UNCHANGED <<lost, ppc, dead1, dead2, seen2, sweepLog, driftVars, speedVars, saveVars, classVars>>

\* recover_one_modem: asyncio.sleep(wait_seconds)
SettleSleep(i) ==
    /\ tasks[i].pc = "sleep"
    /\ Advance(i, [pc |-> "check", k |-> tasks[i].k], <<"sleep", Steps[tasks[i].k], "">>,
               FALSE)
    /\ UNCHANGED <<lost, ppc, dead1, dead2, seen2, sweepLog, driftVars, speedVars, saveVars, classVars>>

\* check_modem_alive: fetch_status raises, the except branch returns False
RecheckFailed(i) ==
    /\ tasks[i].pc = "check"
    /\ Advance(i, OnRecheckError(tasks[i].k), <<"recheck", Steps[tasks[i].k], "not_alive">>,
               TRUE)
    /\ UNCHANGED <<lost, ppc, dead1, dead2, seen2, sweepLog, driftVars, speedVars, saveVars, classVars>>

\* check_modem_alive: fetch_status succeeds
Recheck(i) ==
    /\ tasks[i].pc = "check"
    /\ \E m \in {<<>>} \cup {<<d>> : d \in {r \in Devices : r.imei = tasks[i].imei}} :
        /\ Advance(i, AfterCheck(tasks[i].k, check_modem_alive(m)),
                   <<"recheck", Steps[tasks[i].k],
                     IF check_modem_alive(m) THEN "alive" ELSE "not_alive">>, FALSE)
        /\ UNCHANGED <<lost, ppc, dead1, dead2, seen2, sweepLog, driftVars, speedVars, saveVars, classVars>>

\* recover_one_modem: "recovered after <step>", return
OkNotify(i) ==
    /\ tasks[i].pc = "ok_notify"
    /\ \E accepted \in BOOLEAN :
        /\ Advance(i, AfterNotify([pc |-> "done", k |-> tasks[i].k], accepted),
                   <<"notify", Steps[tasks[i].k], "recovered">>, FALSE)
        /\ lost' = (lost \/ ~accepted)
    /\ UNCHANGED <<ppc, dead1, dead2, seen2, sweepLog, driftVars, speedVars, saveVars, classVars>>

\* recover_one_modem: "could not recover the modem"
GiveUpNotify(i) ==
    /\ tasks[i].pc = "giveup_notify"
    /\ \E accepted \in BOOLEAN :
        /\ Advance(i, AfterNotify([pc |-> "done", k |-> tasks[i].k], accepted),
                   <<"notify", "", "give_up">>, FALSE)
        /\ lost' = (lost \/ ~accepted)
    /\ UNCHANGED <<ppc, dead1, dead2, seen2, sweepLog, driftVars, speedVars, saveVars, classVars>>

\* recover_one_modem: the except branch, "recovery scenario error: <e>"
ErrNotify(i) ==
    /\ tasks[i].pc = "err_notify"
    /\ \E accepted \in BOOLEAN :
        /\ lost' = (lost \/ ~accepted)
        /\ Advance(i, [pc |-> "done", k |-> tasks[i].k],
                   <<"notify", Steps[tasks[i].k], "error">>, FALSE)
    /\ UNCHANGED <<ppc, dead1, dead2, seen2, sweepLog, driftVars, speedVars, saveVars, classVars>>

\* ------------------------------------- the single-server script (ping policy)
\* src/proxysmart_modems_check.py: main_async polls once and classifies by ping_stats.
\* A Python string is the sequence of its pieces: single characters, and the words
\* "ms" and "loss", which no literal of the code splits.
DigitChar == <<"0", "1", "2", "3", "4", "5", "6", "7", "8", "9">>

RECURSIVE Digits(_)
\* str(n) of a natural number
Digits(n) ==
    IF n < 10 THEN <<DigitChar[n + 1]>>
    ELSE Digits(n \div 10) \o <<DigitChar[(n % 10) + 1]>>

\* the vendor's ping_stats, "<rtt>ms, <loss>% loss" with rtt "?" when nothing came back
PingText(rtt, loss) ==
    (IF rtt < 0 THEN <<"?">> ELSE Digits(rtt)) \o <<"ms", ",", " ">>
        \o Digits(loss) \o <<"%", " ", "loss">>

\* Python's `needle in text` for strings
Contains(needle, text) ==
    \E i \in 0..(Len(text) - Len(needle)) : SubSeq(text, i + 1, i + Len(needle)) = needle

\* the statistics main_async is fed in the sweep model, as pick_ping returns them
PingStats == {<<>>, PingText(-1, 100), PingText(31, 0)}

PingDevices == [imei : ImeiSet \cup {NoImei}, ping_stats : PingStats]

PingSnapshots == UNION {[1..n -> PingDevices] : n \in 0..MaxModems}

\* variant: the guard for missing statistics is dropped
is_ping_dead_text(ping_stats) ==
    Contains(<<"1", "0", "0", "%", " ", "loss">>, ping_stats)

\* is_ping_dead: no statistics (None or ""), or "100% loss" in them
is_ping_dead(ping_stats) ==
    IF Len(ping_stats) = 0 THEN TRUE
    ELSE Contains(<<"1", "0", "0", "%", " ", "loss">>, ping_stats)

\* the record of show_status_json that says r; a key that is missing is <<>>, a
\* value is null or a string
PingModem(r) ==
    IF r.kind = "no_details" THEN [net_details |-> <<>>]
    ELSE [net_details |-> <<[ping_stats |->
            CASE r.kind = "no_key" -> <<>>
              [] r.kind = "null"   -> <<[t |-> "null", s |-> <<>>]>>
              [] r.kind = "empty"  -> <<[t |-> "str", s |-> <<>>]>>
              [] OTHER             -> <<[t |-> "str", s |-> PingText(r.rtt, r.loss)]>>]>>]

\* pick_ping: modem.get("net_details", {}).get("ping_stats", "") or ""
pick_ping(modem) ==
    LET details == IF Len(modem.net_details) = 0 THEN [ping_stats |-> <<>>]
                   ELSE modem.net_details[1]
        value == IF Len(details.ping_stats) = 0 THEN [t |-> "str", s |-> <<>>]
                 ELSE details.ping_stats[1]
    IN  IF value.t = "null" \/ Len(value.s) = 0 THEN <<>> ELSE value.s

\* main_async, step 3, for one record: is_ping_dead(pick_ping(m))
PingClassify ==
    /\ verdict = <<>>
    /\ verdict' = <<is_ping_dead(pick_ping(PingModem(raw)))>>
    /\ UNCHANGED <<raw, driftVars, recoveryVars, speedVars, saveVars>>

\* main_async, step 3: the records with an IMEI that are dead by ping
DeadByPing(modems) ==
    LET off == SelectSeq(modems, LAMBDA m : m.imei # NoImei /\ is_ping_dead(m.ping_stats))
    IN  [i \in 1..Len(off) |-> off[i].imei]

\* check_modem_alive of the script after a successful fetch_status
PingAlive(m) == Len(m) > 0 /\ ~is_ping_dead(m[1].ping_stats)

\* main_async: fetch_status raises, the exception leaves main_async
MainFetchFailed ==
    /\ ppc = "fetch1"
    /\ ppc' = "done"
    /\ UNCHANGED <<lost, dead1, dead2, seen2, tasks, sweepLog, driftVars, speedVars, saveVars, classVars>>

\* main_async: the only poll, and the pass over it
MainFetch ==
    /\ ppc = "fetch1"
    /\ \E modems \in PingSnapshots :
        /\ dead1' = DeadByPing(modems)
        /\ ppc' = IF DeadByPing(modems) = <<>> THEN "done" ELSE "notify"
        /\ UNCHANGED <<lost, dead2, seen2, tasks, sweepLog, driftVars, speedVars, saveVars, classVars>>

\* main_async: the summary message, then one task per entry of dead
MainSpawn ==
    /\ ppc = "notify"
    /\ sweepLog' = Append(sweepLog, [kind |-> "offline", imeis |-> dead1])
    /\ tasks' = [i \in 1..Len(dead1) |-> NewTask(dead1[i])]
    /\ ppc' = "gather"
    /\ \E accepted \in BOOLEAN : lost' = (lost \/ ~accepted)
    /\ UNCHANGED <<dead1, dead2, seen2, driftVars, speedVars, saveVars, classVars>>

\* check_modem_alive of the script: fetch_status succeeds
PingRecheck(i) ==
    /\ tasks[i].pc = "check"
    /\ \E m \in {<<>>} \cup {<<d>> : d \in {r \in PingDevices : r.imei = tasks[i].imei}} :
        /\ Advance(i, AfterCheck(tasks[i].k, PingAlive(m)),
                   <<"recheck", Steps[tasks[i].k],
                     IF PingAlive(m) THEN "alive" ELSE "not_alive">>, FALSE)
        /\ UNCHANGED <<lost, ppc, dead1, dead2, seen2, sweepLog, driftVars, speedVars, saveVars, classVars>>

\* ------------------------------------------------ the daily speedtest run
\* src/speed/app.py: main (scheduler loop), run_for_server, db_start_run, db_finish_run.
\* Connections are opened with autocommit, so every SQL statement is one atomic step.
MaxCalls == 2

\* two scheduler processes serve the same fleet
Workers == {"w1", "w2"}

\* SPEED_ATTEMPTS, its default
ATTEMPTS == 3

\* the ticks of the scheduler loop that are followed
MaxTicks == 3

\* the servers of the configuration, in its order
Servers == <<"a", "b">>

\* SPEED_RUN_WINDOW_MINUTES, its default
RUN_WINDOW_MINUTES == 15

\* build_server: the time zone of each server, as its offset from UTC in minutes
\* ("UTC" and a zone three hours east of it)
timezone == [a |-> 0, b |-> 180]

\* variant: the end of the window counts as due
is_due_closed(now_local, run_date_local, sc) ==
    LET target == run_date_local * 1440 + sc.at.hour * 60 + sc.at.minute
    IN  IF sc.late THEN now_local >= target
        ELSE target <= now_local /\ now_local <= target + RUN_WINDOW_MINUTES

\* is_due: a local time is the number of minutes since 00:00 of local day 0, a date
\* the number of the day; target is RUN_HOUR:RUN_MINUTE of run_date_local, sc.late is
\* ALLOW_LATE_RUN
is_due(now_local, run_date_local, sc) ==
    LET target == run_date_local * 1440 + sc.at.hour * 60 + sc.at.minute
    IN  IF sc.late THEN now_local >= target
        ELSE target <= now_local /\ now_local < target + RUN_WINDOW_MINUTES

\* a row as the INSERT of db_start_run creates it: counters NULL
NewRow == <<[status |-> "running", counters |-> <<>>]>>

\* db_has_run, and the SELECT of db_start_run: the status, <<>> for no row
db_has_run(r) == IF Len(r) = 0 THEN <<>> ELSE <<r[1].status>>

\* variant: a plain INSERT, which always reports one row
InsertCreates_always(r) == TRUE

\* INSERT ... ON CONFLICT DO NOTHING: rowcount is 1 iff there was no row
InsertCreates(r) == Len(r) = 0

\* "if status == 'failed' and RETRY_FAILED_RUN"
MayRetry(status, cfg) == status = "failed" /\ cfg

\* the UPDATE of db_start_run: status running, counters NULL (no condition on status)
ResetRow(r) == IF Len(r) = 0 THEN r ELSE NewRow

\* db_finish_run: UPDATE of status and counters
db_finish_run(r, status, total, ok, fail) ==
    IF Len(r) = 0 THEN r
    ELSE <<[status |-> status, counters |-> <<[total |-> total, ok |-> ok, fail |-> fail]>>]>>

\* A worker: where its run thread is, the local variables of run_for_server, and
\* history of its last call of db_start_run: whether there was no row when the
\* scheduler looked (fresh), whether its INSERT created the row (created), the status
\* its SELECT read (seen), the status the row had when it was acquired (over), the
\* value returned (got), the calls so far (calls). ok + fail is the number of modems
\* tested since the call. For the modem under test: the attempts made (att), the
\* variable `success` (succ), and (history) the row the last attempt stored (ins).
IdleWorker ==
    [pc |-> "idle", total |-> 0, ok |-> 0, fail |-> 0, fresh |-> FALSE,
     created |-> FALSE, seen |-> <<>>, over |-> <<>>, got |-> <<>>, calls |-> 0,
     att |-> 0, succ |-> FALSE, ins |-> <<>>]

\* main after its startup checks: about to open the connection of its first tick, no
\* thread running; the configuration is the default one (SPEED_RUN_HOUR 12,
\* SPEED_RUN_MINUTE 0, SPEED_ALLOW_LATE_RUN false). History: `last` is the last start
\* of a thread, the fleet, the instant datetime.now read (minutes UTC) and the
\* run_date_local handed to run_for_server.
IdleSched ==
    [pc |-> "connect", i |-> 1, ticks |-> 0, running |-> {},
     threads |-> [f \in Range(Servers) |-> 0], err |-> "none",
     at |-> [hour |-> 12, minute |-> 0], late |-> FALSE, last |-> <<>>]

\* default configuration: SPEED_RETRY_FAILED_RUN unset
SpeedIdle ==
    /\ retry = FALSE
    /\ row = <<>>
    /\ wk = [w \in Workers |-> IdleWorker]
    /\ sched = IdleSched

\* any configuration
SpeedInit ==
    /\ retry \in BOOLEAN
    /\ row = <<>>
    /\ wk = [w \in Workers |-> IdleWorker]
    /\ sched = IdleSched

\* main: the fleet is due, db_has_run is neither running nor success, _spawn starts
\* the thread (the running set holds at most one thread per fleet in a process)
StartRun(w) ==
    /\ wk[w].pc = "idle"
    /\ wk[w].calls < MaxCalls
    /\ db_has_run(row) \notin {<<"running">>, <<"success">>}
    /\ wk' = [wk EXCEPT ![w] = [IdleWorker EXCEPT !.pc = "insert", !.fresh = (Len(row) = 0),
                                                   !.calls = wk[w].calls + 1]]
    /\ UNCHANGED <<sched, retry, row, driftVars, recoveryVars, saveVars, classVars>>

\* db_start_run: the INSERT; rowcount 1 returns True
InsertRun(w) ==
    /\ wk[w].pc = "insert"
    /\ IF InsertCreates(row)
       THEN /\ row' = NewRow
            /\ wk' = [wk EXCEPT ![w].pc = "fetch", ![w].created = TRUE,
                                 ![w].got = <<TRUE>>]
       ELSE /\ row' = row
            /\ wk' = [wk EXCEPT ![w].pc = "select"]
    /\ UNCHANGED <<sched, retry, driftVars, recoveryVars, saveVars, classVars>>

\* db_start_run: the SELECT and the decision on the status it read
SelectStatus(w) ==
    /\ wk[w].pc = "select"
    /\ LET st == db_has_run(row)
       IN  wk' = [wk EXCEPT ![w].seen = st,
                            ![w].pc = IF Len(st) > 0 /\ MayRetry(st[1], retry)
                                      THEN "update" ELSE "idle",
                            ![w].got = IF Len(st) > 0 /\ MayRetry(st[1], retry)
                                       THEN <<>> ELSE <<FALSE>>]
    /\ UNCHANGED <<sched, retry, row, driftVars, recoveryVars, saveVars, classVars>>

\* db_start_run: the UPDATE that takes a failed run over, returns True
UpdateRetry(w) ==
    /\ wk[w].pc = "update"
    /\ row' = ResetRow(row)
    /\ wk' = [wk EXCEPT ![w].pc = "fetch", ![w].over = db_has_run(row),
                         ![w].got = <<TRUE>>]
    /\ UNCHANGED <<sched, retry, driftVars, recoveryVars, saveVars, classVars>>

\* run_for_server: fetch_modems or extract_modems raises, the run is finished failed
FetchModemsFailed(w) ==
    /\ wk[w].pc = "fetch"
    /\ row' = db_finish_run(row, "failed", 0, 0, 0)
    /\ wk' = [wk EXCEPT ![w].pc = "idle"]
    /\ UNCHANGED <<sched, retry, driftVars, recoveryVars, saveVars, classVars>>

\* run_for_server: the list of modems
FetchModems(w) ==
    /\ wk[w].pc = "fetch"
    /\ \E n \in 0..MaxModems :
        wk' = [wk EXCEPT ![w].total = n, ![w].pc = IF n = 0 THEN "finish" ELSE "test"]
    /\ UNCHANGED <<sched, retry, row, driftVars, recoveryVars, saveVars, classVars>>

\* variant: the loop over the attempts has no "break" after a success
AttemptsOver_nobreak(att, success) == att = ATTEMPTS

\* "for attempt in range(1, ATTEMPTS + 1)" with its "break": the loop ends after a
\* success or after the last attempt
AttemptsOver(att, success) == success \/ att = ATTEMPTS

\* run_for_server: one attempt for the modem under test. The speedtest and the three
\* parsers give a result or raise (good); db_insert_result of the success row works
\* or raises (stored); in the except branch db_insert_result of the failure row works
\* or raises and is only logged (noted). Then the sleep before the next attempt.
SpeedtestAttempt(w) ==
    /\ wk[w].pc = "test"
    /\ \E good \in BOOLEAN, stored \in BOOLEAN, noted \in BOOLEAN :
        LET attempt == wk[w].att + 1
            success == good /\ stored
            inserted == IF success THEN <<[attempt |-> attempt, success |-> TRUE]>>
                        ELSE IF noted THEN <<[attempt |-> attempt, success |-> FALSE]>>
                        ELSE <<>>
        IN  wk' = [wk EXCEPT ![w].att = attempt, ![w].succ = success,
                             ![w].ins = inserted,
                             ![w].pc = IF AttemptsOver(attempt, success)
                                       THEN "tally" ELSE "test"]
    /\ UNCHANGED <<sched, retry, row, driftVars, recoveryVars, saveVars, classVars>>

\* run_for_server: "if success: ok += 1 else: fail += 1", then the next modem
TallyModem(w) ==
    /\ wk[w].pc = "tally"
    /\ wk' = [wk EXCEPT ![w].ok = IF wk[w].succ THEN @ + 1 ELSE @,
                         ![w].fail = IF wk[w].succ THEN @ ELSE @ + 1,
                         ![w].att = 0, ![w].succ = FALSE, ![w].ins = <<>>,
                         ![w].pc = IF wk[w].ok + wk[w].fail + 1 = wk[w].total
                                   THEN "finish" ELSE "test"]
    /\ UNCHANGED <<sched, retry, row, driftVars, recoveryVars, saveVars, classVars>>

\* run_for_server: db_finish_run raises (the connection is gone); nothing catches it,
\* the finally block closes the connection and the thread ends
FinishRunFailed(w) ==
    /\ wk[w].pc = "finish"
    /\ wk' = [wk EXCEPT ![w].pc = "idle"]
    /\ UNCHANGED <<sched, retry, row, driftVars, recoveryVars, saveVars, classVars>>

\* run_for_server: db_finish_run with the status of the run
FinishRun(w) ==
    /\ wk[w].pc = "finish"
    /\ row' = db_finish_run(row, IF wk[w].fail = 0 THEN "success" ELSE "failed",
                            wk[w].total, wk[w].ok, wk[w].fail)
    /\ wk' = [wk EXCEPT ![w].pc = "idle"]
    /\ UNCHANGED <<sched, retry, driftVars, recoveryVars, saveVars, classVars>>

\* the process is killed and restarted: its thread is gone, the row stays as it is
Restart(w) ==
    /\ wk[w].pc # "idle"
    /\ wk' = [wk EXCEPT ![w] = [IdleWorker EXCEPT !.calls = wk[w].calls]]
    /\ UNCHANGED <<sched, retry, row, driftVars, recoveryVars, saveVars, classVars>>

\* ------------------------------------------------ the scheduler loop of main
\* src/speed/app.py main, "while True": one connection per tick, a pass over the
\* servers, close, sleep. run_for_server runs in a thread of its own and is seen here
\* only as a thread that is alive and then ends.

\* variant: the connection is opened inside the try block of the tick
OnConnectError_caught == "sleep"

\* get_db_conn() stands before the try block: its exception leaves the loop and main
OnConnectError == "exited"

\* variant: _spawn without the test of `running`
spawn_unguarded(sc, f, utc, run_date_local) ==
    [sc EXCEPT !.running = @ \cup {f}, !.threads[f] = @ + 1,
               !.last = <<[fleet |-> f, utc |-> utc, day |-> run_date_local]>>]

\* _spawn: nothing if the fleet is in `running`, else it is added and a thread started
spawn(sc, f, utc, run_date_local) ==
    IF f \in sc.running THEN sc
    ELSE [sc EXCEPT !.running = @ \cup {f}, !.threads[f] = @ + 1,
                    !.last = <<[fleet |-> f, utc |-> utc, day |-> run_date_local]>>]

\* main: get_db_conn() at the start of a tick raises
ConnectFailed ==
    /\ sched.pc = "connect"
    /\ sched' = [sched EXCEPT !.pc = OnConnectError, !.err = "connect"]
    /\ UNCHANGED <<retry, row, wk, driftVars, recoveryVars, saveVars, classVars>>

\* main: get_db_conn() at the start of a tick
Connect ==
    /\ sched.pc = "connect"
    /\ sched' = [sched EXCEPT !.pc = "scan", !.i = 1, !.err = "none"]
    /\ UNCHANGED <<retry, row, wk, driftVars, recoveryVars, saveVars, classVars>>

\* the instants at which the clock is read, in minutes since 00:00 UTC of day 0:
\* around 01:30, 12:00 and 23:50 of either zone, and on day 1
Instants ==
    {0, 90, 539, 540, 554, 555, 719, 720, 734, 735, 900, 1250, 1259, 1260, 1300, 1350,
     1430, 1439, 1440, 1444, 1980, 2160}

\* main: one server of the pass: datetime.now(server.timezone), its date, is_due,
\* db_has_run, _spawn, and the statement after the body of the for loop: the next
\* server, or conn.close()
ScanServer ==
    /\ sched.pc = "scan"
    /\ \E utc \in Instants, status \in {<<>>, <<"running">>, <<"success">>, <<"failed">>} :
        LET server == Servers[sched.i]
            now_local == utc + timezone[server]
            run_date_local == now_local \div 1440
            sc == IF /\ is_due(now_local, run_date_local, sched)
                     /\ status \notin {<<"running">>, <<"success">>}
                  THEN spawn(sched, server, utc, run_date_local)
                  ELSE sched
        IN  sched' = IF sc.i < Len(Servers) THEN [sc EXCEPT !.i = @ + 1]
                     ELSE [sc EXCEPT !.pc = "close", !.i = 1]
    /\ UNCHANGED <<retry, row, wk, driftVars, recoveryVars, saveVars, classVars>>

\* main: db_has_run raises, "scheduler tick failed" is logged, the pass ends
ScanFailed ==
    /\ sched.pc = "scan"
    /\ sched' = [sched EXCEPT !.pc = "close", !.i = 1, !.err = "query"]
    /\ UNCHANGED <<retry, row, wk, driftVars, recoveryVars, saveVars, classVars>>

\* main: the finally block, conn.close() with its own try/except
CloseConn ==
    /\ sched.pc = "close"
    /\ sched' = [sched EXCEPT !.pc = "sleep"]
    /\ UNCHANGED <<retry, row, wk, driftVars, recoveryVars, saveVars, classVars>>

\* main: time.sleep(POLL_SECONDS), then the next tick
PollSleep ==
    /\ sched.pc = "sleep"
    /\ sched.ticks < MaxTicks
    /\ sched' = [sched EXCEPT !.pc = "connect", !.ticks = @ + 1]
    /\ UNCHANGED <<retry, row, wk, driftVars, recoveryVars, saveVars, classVars>>

\* _wrapped: run_for_server returned or raised, the finally block discards the fleet
ThreadEnd(f) ==
    /\ sched.threads[f] > 0
    /\ sched.pc # "exited"
    /\ sched' = [sched EXCEPT !.running = @ \ {f}, !.threads[f] = @ - 1]
    /\ UNCHANGED <<retry, row, wk, driftVars, recoveryVars, saveVars, classVars>>

\* ---------------------------------------------------- the rate parser
\* src/speed/app.py parse_rate_to_mbps, and the use run_for_server makes of it.
\* A string is the sequence of its characters. A float is kept as a decimal, mant *
\* 10^exp, so that no rounding of the model stands between a text and its value.
Chars(word) ==
    CASE word = "bps"    -> <<"b", "p", "s">>
      [] word = "kbps"   -> <<"k", "b", "p", "s">>
      [] word = "mbps"   -> <<"m", "b", "p", "s">>
      [] word = "gbps"   -> <<"g", "b", "p", "s">>
      [] word = "Mbps"   -> <<"M", "b", "p", "s">>
      [] word = "KBPS"   -> <<"K", "B", "P", "S">>
      [] word = "Gbps"   -> <<"G", "b", "p", "s">>
      [] word = "tbps"   -> <<"t", "b", "p", "s">>
      [] word = "mb"     -> <<"m", "b">>
      [] word = "ms"     -> <<"m", "s">>
      [] word = "mbit/s" -> <<"m", "b", "i", "t", "/", "s">>
      [] word = "mbps/s" -> <<"m", "b", "p", "s", "/", "s">>
      [] word = "kmbps"  -> <<"k", "m", "b", "p", "s">>
      [] OTHER           -> <<>>

\* the numbers a speedtest can report, well formed (digits, optionally a point and
\* digits) or not, each with the value its text denotes
NumberForms ==
    {[text |-> <<"5", "2", ".", "7", "9">>, ok |-> TRUE, mant |-> 5279, exp |-> -2],
     [text |-> <<"1", "2", "0">>, ok |-> TRUE, mant |-> 120, exp |-> 0],
     [text |-> <<"1", ".", "2">>, ok |-> TRUE, mant |-> 12, exp |-> -1],
     [text |-> <<"8", ".", "8", "5">>, ok |-> TRUE, mant |-> 885, exp |-> -2],
     [text |-> <<"0">>, ok |-> TRUE, mant |-> 0, exp |-> 0],
     [text |-> <<"0", ".", "5">>, ok |-> TRUE, mant |-> 5, exp |-> -1],
     [text |-> <<>>, ok |-> FALSE, mant |-> 0, exp |-> 0],
     [text |-> <<"1", ".">>, ok |-> FALSE, mant |-> 0, exp |-> 0],
     [text |-> <<".", "5">>, ok |-> FALSE, mant |-> 0, exp |-> 0],
     [text |-> <<"-", "5">>, ok |-> FALSE, mant |-> 0, exp |-> 0],
     [text |-> <<"1", ".", "2", ".", "3">>, ok |-> FALSE, mant |-> 0, exp |-> 0],
     [text |-> <<"1", "e", "3">>, ok |-> FALSE, mant |-> 0, exp |-> 0]}

\* the unit suffixes: a magnitude prefix and bps in any case, or something else
UnitForms ==
    {[text |-> Chars(w), prefix |-> q] :
        <<w, q>> \in {<<"bps", "">>, <<"kbps", "k">>, <<"mbps", "m">>, <<"gbps", "g">>,
                      <<"Mbps", "m">>, <<"KBPS", "k">>, <<"Gbps", "g">>}}
    \cup {[text |-> Chars(w), prefix |-> "?"] :
            w \in {"tbps", "mb", "ms", "mbit/s", "mbps/s", "kmbps", ""}}

\* what data.get("download") can be: null, a number, or a string built of a number,
\* a unit and blanks around and between them
RateInputs ==
    LET Blanks == {<<>>, <<" ">>}
    IN  [t : {"str"}, num : NumberForms, unit : UnitForms, lead : Blanks, gap : Blanks,
         trail : Blanks]
    \cup [t : {"null", "float"}, num : {n \in NumberForms : n.mant = 5279},
          unit : {u \in UnitForms : u.prefix = "m" /\ u.text[1] = "m"}, lead : {<<>>},
          gap : {<<>>}, trail : {<<>>}]

RECURSIVE NatOf(_)
\* int() of a sequence of digits
NatOf(ds) ==
    IF Len(ds) = 0 THEN 0
    ELSE 10 * NatOf(SubSeq(ds, 1, Len(ds) - 1))
         + (CHOOSE d \in 0..9 : DigitChar[d + 1] = ds[Len(ds)])

\* the length of the longest prefix of digits, what [0-9]+ consumes
LeadDigits(text) ==
    CHOOSE n \in 0..Len(text) :
        /\ \A i \in 1..n : text[i] \in Range(DigitChar)
        /\ n = Len(text) \/ text[n + 1] \notin Range(DigitChar)

\* s.strip() on a text with blanks
StripText(text) ==
    LET keep == {i \in 1..Len(text) : text[i] # " "}
    IN  IF keep = {} THEN <<>>
        ELSE SubSeq(text, CHOOSE i \in keep : \A j \in keep : i <= j,
                          CHOOSE i \in keep : \A j \in keep : i >= j)

\* s.lower()
LowerText(text) ==
    [i \in 1..Len(text) |->
        CASE text[i] = "K" -> "k" [] text[i] = "M" -> "m" [] text[i] = "G" -> "g"
          [] text[i] = "B" -> "b" [] text[i] = "P" -> "p" [] text[i] = "S" -> "s"
          [] OTHER -> text[i]]

\* s.replace(" ", "")
NoSpaces(text) == SelectSeq(text, LAMBDA c : c # " ")

\* the factor of a unit as a power of ten: k divides by 1000, g multiplies by 1000
UnitExp(unit) == CASE unit = "k" -> -3 [] unit = "g" -> 3 [] OTHER -> 0

\* re.match(r"^([0-9]+(?:\.[0-9]+)?)\s*(k|m|g)?bps$", s): <<>> for no match, else the
\* digits before and after the point and the unit letter ("" if there is none)
MatchRate(text) ==
    LET n1 == LeadDigits(text)
        rest1 == SubSeq(text, n1 + 1, Len(text))
        frac == Len(rest1) >= 2 /\ rest1[1] = "." /\ rest1[2] \in Range(DigitChar)
        n2 == IF frac THEN LeadDigits(Tail(rest1)) ELSE 0
        rest2 == IF frac THEN SubSeq(rest1, n2 + 2, Len(rest1)) ELSE rest1
        letter == Len(rest2) > 0 /\ rest2[1] \in {"k", "m", "g"}
        rest3 == IF letter THEN Tail(rest2) ELSE rest2
    IN  IF n1 = 0 \/ rest3 # <<"b", "p", "s">> THEN <<>>
        ELSE <<[int |-> SubSeq(text, 1, n1),
                frac |-> IF frac THEN SubSeq(rest1, 2, n2 + 1) ELSE <<>>,
                unit |-> IF letter THEN rest2[1] ELSE ""]>>

\* variant: a text that does not match is read as zero
NoRate_zero == <<[mant |-> 0, exp |-> 0]>>

\* "return None"
NoRate == <<>>

\* parse_rate_to_mbps: None, or the rate in Mbit/s
parse_rate_to_mbps(v) ==
    IF v.t = "null" THEN <<>>
    ELSE LET \* str(v); a float is written without a unit
             str == IF v.t = "float" THEN v.num.text
                    ELSE v.lead \o v.num.text \o v.gap \o v.unit.text \o v.trail
             text == NoSpaces(LowerText(StripText(str)))
             m == IF Len(text) = 0 THEN <<>> ELSE MatchRate(text)
         IN  IF Len(m) = 0 THEN NoRate
             ELSE <<[mant |-> NatOf(m[1].int \o m[1].frac),
                     exp |-> UnitExp(IF m[1].unit = "" THEN "m" ELSE m[1].unit)
                             - Len(m[1].frac)]>>

\* run_for_server, the body of one attempt after run_speedtest has returned: the three
\* parsers, the RuntimeError "parse_failed" if one of them gave None, and the row
\* handed to db_insert_result
ParseAttempt ==
    /\ verdict = <<>>
    /\ LET download == parse_rate_to_mbps(raw.download)
       IN  verdict' =
             <<IF Len(download) = 0 \/ Len(raw.upload) = 0 \/ Len(raw.ping) = 0
               THEN [success |-> FALSE, download_mbps |-> <<>>, error |-> "parse_failed"]
               ELSE [success |-> TRUE, download_mbps |-> download, error |-> ""]>>
    /\ UNCHANGED <<raw, driftVars, recoveryVars, speedVars, saveVars>>

\* ---------------------------------------------- save_state, step by step
\* src/delta/app.py save_state / load_state (the same in proxysmart_modems_list.py).
\* A text is the sequence of the tokens json.dumps writes; a file holds a prefix of it
\* while write_text is under way.
Token(k, v) == [k |-> k, v |-> v]

\* the states save_state is called with: last_count set, pending optional
SaveStates ==
    {[last_count |-> <<c>>, pending |-> q] :
        c \in Counts, q \in {<<>>} \cup {Pending(v, t) : v \in Counts, t \in 0..MaxTime}}

\* json.dumps(state)
json_dumps(state) ==
    <<Token("last_count", state.last_count[1])>>
    \o (IF Len(state.pending) > 0
        THEN <<Token("value", state.pending[1].value),
               Token("first_seen", state.pending[1].first_seen)>>
        ELSE <<>>)
    \o <<Token("end", 0)>>

\* json.loads(text): <<state>>, or <<>> when the text is not a complete document
json_loads(text) ==
    IF Len(text) = 2 /\ text[1].k = "last_count" /\ text[2].k = "end"
    THEN <<[last_count |-> <<text[1].v>>, pending |-> <<>>]>>
    ELSE IF Len(text) = 4 /\ text[1].k = "last_count" /\ text[2].k = "value"
            /\ text[3].k = "first_seen" /\ text[4].k = "end"
    THEN <<[last_count |-> <<text[1].v>>, pending |-> Pending(text[2].v, text[3].v)]>>
    ELSE <<>>

\* load_state on the directory: {} when there is no file or json.loads raises
LoadFromDisk(d) ==
    IF Len(d["f"]) = 0 THEN EmptyState
    ELSE IF Len(json_loads(d["f"][1])) = 0 THEN EmptyState
    ELSE json_loads(d["f"][1])[1]

\* variant: the text is written straight into the state file
TmpPath_same == "f"

\* tmp = base / "modems_state.json.tmp"
TmpPath == "tmp"

SaveInit ==
    /\ disk = [path \in {"f", "tmp"} |-> <<>>]
    /\ spc = "idle"
    /\ job = EmptyState

\* save_state is called; tmp.write_text creates or truncates the file
BeginSave ==
    /\ spc = "idle"
    /\ \E state \in SaveStates :
        /\ job' = state
        /\ disk' = [disk EXCEPT ![TmpPath] = <<<<>>>>]
        /\ spc' = "write"
        /\ UNCHANGED <<driftVars, recoveryVars, speedVars, classVars>>

\* tmp.write_text: the next part of the text reaches the file
WriteChunk ==
    /\ spc = "write"
    /\ LET text == json_dumps(job)
           done == Len(disk[TmpPath][1])
       IN  /\ disk' = [disk EXCEPT ![TmpPath] = <<Append(@[1], text[done + 1])>>]
           /\ spc' = IF done + 1 = Len(text) THEN "replace" ELSE "write"
    /\ UNCHANGED <<job, driftVars, recoveryVars, speedVars, classVars>>

\* tmp.replace(f): an atomic rename
ReplaceFile ==
    /\ spc = "replace"
    /\ disk' = IF TmpPath = "f" THEN disk
               ELSE [disk EXCEPT !["f"] = disk[TmpPath], ![TmpPath] = <<>>]
    /\ spc' = "idle"
    /\ job' = EmptyState
    /\ UNCHANGED <<driftVars, recoveryVars, speedVars, classVars>>

\* a statement of save_state raises, or the process is killed, at any point of the save
AbortSave ==
    /\ spc # "idle"
    /\ spc' = "idle"
    /\ job' = EmptyState
    /\ UNCHANGED <<disk, driftVars, recoveryVars, speedVars, classVars>>

\* ------------------------------------------- is_offline on the raw fields
\* src/ping/app.py is_offline. A JSON value is a record: its type t ("bool", "num",
\* "str", "null", or "missing" for an absent key) and its text s in lower case without
\* surrounding whitespace; for a string, upper says that it has capital letters and pad
\* that it has surrounding whitespace.
Value(t, text, upper, pad) == [t |-> t, s |-> text, upper |-> upper, pad |-> pad]

Bools == {Value("bool", text, FALSE, FALSE) : text \in {"true", "false"}}

Nums == {Value("num", text, FALSE, FALSE) : text \in {"0", "1", "2"}}

Strs(texts) == {Value("str", text, u, q) : text \in texts, u \in BOOLEAN, q \in BOOLEAN}

Missing == Value("missing", "", FALSE, FALSE)

Null == Value("null", "none", FALSE, FALSE)

\* the values tried for net_details.IS_ONLINE
OnlineValues ==
    Bools \cup Nums \cup {Missing, Null}
        \cup Strs({"yes", "true", "1", "ok", "online", "no", "false", "0", "offline", ""})

\* the values tried for IS_LOCKED, IS_REBOOTING, IS_ROTATED
FlagValues ==
    Bools \cup {Missing, Value("num", "0", FALSE, FALSE), Value("num", "1", FALSE, FALSE),
                Value("str", "true", FALSE, FALSE), Value("str", "true", TRUE, FALSE),
                Value("str", "true", FALSE, TRUE), Value("str", "false", FALSE, FALSE),
                Value("str", "yes", FALSE, FALSE), Value("str", "1", FALSE, FALSE)}

RawModems ==
    [IS_ONLINE : OnlineValues, IS_LOCKED : FlagValues, IS_REBOOTING : FlagValues,
     IS_ROTATED : FlagValues]

\* dict.get(key, default)
Get(v, default) == IF v.t = "missing" THEN Value("str", default, FALSE, FALSE) ELSE v

\* str(v): True, False and None are written with a capital letter
Str(v) ==
    IF v.t = "str" THEN v
    ELSE Value("str", v.s, v.t \in {"bool", "null"}, FALSE)

\* s.strip()
Strip(v) == [v EXCEPT !.pad = FALSE]

\* s.lower()
Lower(v) == [v EXCEPT !.upper = FALSE]

\* string equality with a literal in lower case without whitespace
Equals(v, literal) == v.s = literal /\ ~v.upper /\ ~v.pad

\* online_status: bool as it is, a number by bool(), anything else by its text
OnlineStatus(is_online_val) ==
    IF is_online_val.t = "bool" THEN is_online_val.s = "true"
    ELSE IF is_online_val.t = "num" THEN is_online_val.s # "0"
    ELSE \E literal \in {"yes", "true", "1", "ok", "online"} :
            Equals(Lower(Strip(Str(is_online_val))), literal)

\* variant: the busy flags are not looked at
IsTrue_never(v) == FALSE

\* str(modem.get(flag, "false")).lower() == "true"
IsTrue(v) == Equals(Lower(Str(Get(v, "false"))), "true")

\* the record as is_offline sees it
Coerced(m) ==
    [imei |-> NoImei,
     online |-> OnlineStatus(Get(m.IS_ONLINE, "no")),
     busy |-> IsTrue(m.IS_LOCKED) \/ IsTrue(m.IS_REBOOTING) \/ IsTrue(m.IS_ROTATED)]

DefaultModem ==
    [IS_ONLINE |-> Missing, IS_LOCKED |-> Missing, IS_REBOOTING |-> Missing,
     IS_ROTATED |-> Missing]

\* no record under classification
ClassIdle ==
    /\ raw = DefaultModem
    /\ verdict = <<>>

\* is_offline(modem) is called
Classify ==
    /\ verdict = <<>>
    /\ verdict' = <<is_offline(Coerced(raw))>>
    /\ UNCHANGED <<raw, driftVars, recoveryVars, speedVars, saveVars>>

\* ------------------------------------------------------- specifications
Init == DriftInit /\ RecoveryInit /\ SpeedIdle /\ SaveInit /\ ClassIdle

Next == FetchFailed \/ RunOnce \/ Tick

\* the drift monitor: cycles of run_once / run_once_for_server
Spec == Init /\ [][Next]_vars

RecoveryNext ==
    \/ Fetch1Failed
    \/ Fetch1
    \/ DoubleCheckSleep
    \/ Fetch2Failed
    \/ Fetch2
    \/ Spawn
    \/ Gather
    \/ \E i \in 1..Len(tasks) : StartNotify(i)
    \/ \E i \in 1..Len(tasks) : Action(i)
    \/ \E i \in 1..Len(tasks) : SettleSleep(i)
    \/ \E i \in 1..Len(tasks) : RecheckFailed(i)
    \/ \E i \in 1..Len(tasks) : Recheck(i)
    \/ \E i \in 1..Len(tasks) : OkNotify(i)
    \/ \E i \in 1..Len(tasks) : GiveUpNotify(i)
    \/ \E i \in 1..Len(tasks) : ErrNotify(i)

\* the recovery monitor: one sweep of process_server
RecoverySpec == Init /\ [][RecoveryNext]_vars

\* process_server from the creation of the tasks on: both polls showed the same n
\* records offline, the summary message has been handed to tg_send
LadderStart ==
    /\ DriftInit /\ SpeedIdle /\ SaveInit /\ ClassIdle
    /\ ppc = "gather"
    /\ \E n \in 1..MaxModems : dead2 \in [1..n -> ImeiSet]
    /\ dead1 = dead2
    /\ tasks = [i \in 1..Len(dead2) |-> NewTask(dead2[i])]
    /\ sweepLog = <<[kind |-> "offline", imeis |-> dead2]>>
    /\ seen2 = [imei \in ImeiSet |->
                  IF \E i \in 1..Len(dead2) : dead2[i] = imei THEN "offline" ELSE "alive"]
    /\ lost \in BOOLEAN

\* the tasks of one sweep and the gather that waits for them
LadderNext ==
    \/ Gather
    \/ \E i \in 1..Len(tasks) : StartNotify(i)
    \/ \E i \in 1..Len(tasks) : Action(i)
    \/ \E i \in 1..Len(tasks) : SettleSleep(i)
    \/ \E i \in 1..Len(tasks) : RecheckFailed(i)
    \/ \E i \in 1..Len(tasks) : Recheck(i)
    \/ \E i \in 1..Len(tasks) : OkNotify(i)
    \/ \E i \in 1..Len(tasks) : GiveUpNotify(i)
    \/ \E i \in 1..Len(tasks) : ErrNotify(i)

\* the awaits do not all hang for ever: every request has the ClientTimeout of the
\* session, every sleep is finite, and the event loop resumes a task whose await has
\* returned
LadderSpec == LadderStart /\ [][LadderNext]_vars /\ WF_vars(LadderNext)

PingNext ==
    \/ MainFetchFailed
    \/ MainFetch
    \/ MainSpawn
    \/ Gather
    \/ \E i \in 1..Len(tasks) : StartNotify(i)
    \/ \E i \in 1..Len(tasks) : Action(i)
    \/ \E i \in 1..Len(tasks) : SettleSleep(i)
    \/ \E i \in 1..Len(tasks) : RecheckFailed(i)
    \/ \E i \in 1..Len(tasks) : PingRecheck(i)
    \/ \E i \in 1..Len(tasks) : OkNotify(i)
    \/ \E i \in 1..Len(tasks) : GiveUpNotify(i)
    \/ \E i \in 1..Len(tasks) : ErrNotify(i)

\* the single-server script: one run of main_async
PingSpec == Init /\ [][PingNext]_vars

SpeedNext ==
    \/ \E w \in Workers : StartRun(w)
    \/ \E w \in Workers : InsertRun(w)
    \/ \E w \in Workers : SelectStatus(w)
    \/ \E w \in Workers : UpdateRetry(w)
    \/ \E w \in Workers : FetchModemsFailed(w)
    \/ \E w \in Workers : FetchModems(w)
    \/ \E w \in Workers : SpeedtestAttempt(w)
    \/ \E w \in Workers : TallyModem(w)
    \/ \E w \in Workers : FinishRunFailed(w)
    \/ \E w \in Workers : FinishRun(w)
    \/ \E w \in Workers : Restart(w)

\* the daily speedtest of one fleet and day, under any configuration
SpeedStart == DriftInit /\ RecoveryInit /\ SpeedInit /\ SaveInit /\ ClassIdle

SpeedSpec == SpeedStart /\ [][SpeedNext]_vars

\* a run thread goes on by itself once main has started it; nothing ends it from outside
RunStep(w) ==
    \/ InsertRun(w) \/ SelectStatus(w) \/ UpdateRetry(w) \/ FetchModemsFailed(w)
    \/ FetchModems(w) \/ SpeedtestAttempt(w) \/ TallyModem(w) \/ FinishRun(w)
    \/ FinishRunFailed(w)

RunNext ==
    \/ \E w \in Workers : StartRun(w)
    \/ \E w \in Workers : InsertRun(w)
    \/ \E w \in Workers : SelectStatus(w)
    \/ \E w \in Workers : UpdateRetry(w)
    \/ \E w \in Workers : FetchModemsFailed(w)
    \/ \E w \in Workers : FetchModems(w)
    \/ \E w \in Workers : SpeedtestAttempt(w)
    \/ \E w \in Workers : TallyModem(w)
    \/ \E w \in Workers : FinishRun(w)
    \/ \E w \in Workers : FinishRunFailed(w)

\* the daily speedtest without external termination: every started thread keeps running
RunLiveSpec ==
    SpeedStart /\ [][RunNext]_vars /\ \A w \in Workers : WF_vars(RunStep(w))

FleetNext ==
    \/ DriftFleetRaised \/ DriftFleetSkipped \/ DriftFleetCycle \/ DriftPassEnd
    \/ Tick

FleetSpec == Init /\ [][FleetNext]_vars

SchedNext ==
    \/ ConnectFailed \/ Connect \/ ScanServer \/ ScanFailed \/ CloseConn \/ PollSleep
    \/ \E f \in Range(Servers) : ThreadEnd(f)

\* any configuration of the run time: 01:30, 12:00 or 23:50, late runs allowed or not
SchedStart ==
    /\ DriftInit /\ RecoveryInit /\ SaveInit /\ ClassIdle
    /\ retry = FALSE
    /\ row = <<>>
    /\ wk = [w \in Workers |-> IdleWorker]
    /\ sched \in {[IdleSched EXCEPT !.at = t, !.late = l] :
                    t \in {[hour |-> 1, minute |-> 30], [hour |-> 12, minute |-> 0],
                           [hour |-> 23, minute |-> 50]},
                    l \in BOOLEAN}

SchedSpec == SchedStart /\ [][SchedNext]_vars

SaveNext ==
    \/ BeginSave
    \/ WriteChunk
    \/ ReplaceFile
    \/ AbortSave

\* the state file under saves that may be cut short at any statement
SaveSpec == Init /\ [][SaveNext]_vars

\* the flag policy applied to one record
\* any record
ClassStart ==
    /\ DriftInit /\ RecoveryInit /\ SpeedIdle /\ SaveInit
    /\ raw \in RawModems
    /\ verdict = <<>>

ClassifySpec == ClassStart /\ [][Classify]_vars

\* the classification of one record under the ping policy. A record can say about
\* its ping: no net_details, net_details without the key, the key with null, with "",
\* or with a report of a round trip and a loss.
PingPolicyStart ==
    /\ DriftInit /\ RecoveryInit /\ SpeedIdle /\ SaveInit
    /\ raw \in {[kind |-> k, rtt |-> 0, loss |-> 0] :
                    k \in {"no_details", "no_key", "null", "empty"}}
               \cup {[kind |-> "text", rtt |-> r, loss |-> l] :
                        r \in {-1, 1, 10, 31, 100}, l \in 0..100}
    /\ verdict = <<>>

PingPolicySpec == PingPolicyStart /\ [][PingClassify]_vars

\* the answers of run_speedtest one attempt is fed
RateStart ==
    /\ DriftInit /\ RecoveryInit /\ SpeedIdle /\ SaveInit
    /\ raw \in [download : RateInputs, upload : {<<>>, <<[mant |-> 885, exp |-> -2]>>},
                ping : {<<>>, <<[mant |-> 31, exp |-> 0]>>}]
    /\ verdict = <<>>

RateSpec == RateStart /\ [][ParseAttempt]_vars

\* ------------------------------------------------ the recheck of one step
\* check_modem_alive as recover_one_modem calls it after the settle wait of step k,
\* under the flag policy (src/ping/app.py) or the ping policy (the script): the poll
\* raises, or gives a snapshot in which the IMEI is looked up.
RecheckStart ==
    /\ DriftInit /\ RecoveryInit /\ SpeedIdle /\ SaveInit
    /\ raw \in [policy : {"flag"}, imei : ImeiSet, k : 1..Len(Steps), fails : {FALSE},
                modems : Snapshots]
           \cup [policy : {"ping"}, imei : ImeiSet, k : 1..Len(Steps), fails : {FALSE},
                   modems : PingSnapshots]
           \cup [policy : {"flag", "ping"}, imei : ImeiSet, k : 1..Len(Steps),
                   fails : {TRUE}, modems : {<<>>}]
    /\ verdict = <<>>

\* check_modem_alive returns and recover_one_modem branches on its value
RecheckOutcome ==
    /\ verdict = <<>>
    /\ LET idx == index_by_imei(raw.modems)
           m == IF raw.imei \in DOMAIN idx THEN <<idx[raw.imei]>> ELSE <<>>
           alive == IF raw.policy = "flag" THEN check_modem_alive(m) ELSE PingAlive(m)
       IN  verdict' = <<IF raw.fails THEN OnRecheckError(raw.k)
                        ELSE AfterCheck(raw.k, alive)>>
    /\ UNCHANGED <<raw, driftVars, recoveryVars, speedVars, saveVars>>

RecheckSpec == RecheckStart /\ [][RecheckOutcome]_vars

CrashNext == FetchFailed \/ RunOnce \/ Tick \/ CrashAfterSend

\* the drift monitor whose process can end in the middle of a confirmation
CrashSpec == Init /\ [][CrashNext]_vars

\* the drift monitor at any moment of its life: a state file as the cycles leave it
\* (none, or last_count with or without a pending block seen at or before now)
StableStart ==
    /\ RecoveryInit /\ SpeedIdle /\ SaveInit /\ ClassIdle
    /\ now \in 0..MaxTime
    /\ file \in {<<>>} \cup {<<st>> : st \in {q \in SaveStates :
                    HasPending(q) => q.pending[1].first_seen <= now}}
    /\ cycles = 0
    /\ lastObs = <<>> /\ lastEvent = <<>> /\ loaded = <<>> /\ wrote = <<>>
    /\ faulted = FALSE /\ run = <<>> /\ flap = FALSE /\ lastReset = <<>>
    /\ misread = FALSE /\ told = <<>> /\ delivered = <<>>
    /\ mon = [files |-> [d \in Range(FleetIds) |-> <<>>], i |-> 1, called |-> {},
              raised |-> {}, passes |-> 0]

\* from some cycle on every poll succeeds and observes the same value; the timer
\* keeps starting the cycles
SettleSpec == StableStart /\ [][StableCycle \/ Tick]_vars /\ WF_vars(StableCycle)

\* ---------------------------------------------------------------- claims
\* a step that is one completed cycle with a successful fetch
ObservedCycle == cycles' = cycles + 1 /\ lastObs' # <<>>

\* C1: once the count has returned to last_count before the window of a different
\* pending value elapsed, and keeps being observed there (no load or save fault),
\* no confirmation message is ever sent.
C1_NoFalsePositive ==
    (flap /\ ~faulted) => lastEvent = <<>>

\* C2: with no load or save fault, a cycle that observes v at time t, where v differs
\* from last_count = c and every successful observation since some t0 <= t - W was v,
\* sends DriftConfirmed(c, v) and persists last_count = v without pending; a cycle
\* that observes v while last_count = v and nothing is pending sends nothing and
\* leaves the state file alone.
C2_Step ==
    (ObservedCycle /\ ~faulted' /\ Len(file) > 0) =>
        LET v == lastObs'[1]
            c == file[1].last_count[1]
        IN  /\ (c # v /\ Len(run) > 0 /\ run[1].value = v
                  /\ now - run[1].since >= DRIFT_CONFIRM_SECONDS)
                => /\ lastEvent' = <<[old |-> c, new |-> v]>>
                   /\ file' = <<[last_count |-> <<v>>, pending |-> <<>>]>>
            /\ (c = v /\ file[1].pending = <<>>)
                => /\ lastEvent' = <<>>
                   /\ file' = file

\* C2: every step of the drift monitor is a C2_Step (confirmation exactly when the
\* value has persisted for the window, silence once it is confirmed).
C2_Confirmation == [][C2_Step]_vars

C2_Witness ==
    /\ ~faulted
    /\ lastEvent # <<>>
    /\ lastEvent[1].old # lastEvent[1].new
    /\ file = <<[last_count |-> <<lastEvent[1].new>>, pending |-> <<>>]>>
    /\ now - run[1].since >= DRIFT_CONFIRM_SECONDS

\* C3: a cycle that loads a pending block and observes a value v different from
\* pending.value hands save_state the state with pending = {v, now} (which becomes the
\* file when the write succeeds) and sends no message; and a confirmation of v is
\* never sent less than W after the last such restart for v.
C3_Step ==
    (ObservedCycle /\ HasPending(loaded'[1])
        /\ lastObs'[1] # loaded'[1].pending[1].value) =>
        /\ lastEvent' = <<>>
        /\ wrote' # <<>>
        /\ wrote'[1].state = [last_count |-> loaded'[1].last_count,
                              pending |-> Pending(lastObs'[1], now)]
        /\ wrote'[1].ok => file' = <<wrote'[1].state>>

C3_Earliest ==
    (lastEvent # <<>> /\ lastReset # <<>> /\ lastEvent[1].new = lastReset[1].value)
        => now - lastReset[1].at >= DRIFT_CONFIRM_SECONDS

\* C3: every step restarts the window as C3_Step says, and no confirmation of v comes
\* earlier than W after the last restart for v.
C3_WindowRestart == [][C3_Step]_vars /\ []C3_Earliest

C3_Witness ==
    /\ lastReset # <<>>
    /\ lastEvent # <<>>
    /\ lastEvent[1].new = lastReset[1].value
    /\ lastEvent[1].old # lastEvent[1].new

\* C4: with no load or save fault, whenever the state file holds a pending block its
\* value differs from last_count.
C4_PendingDiffers ==
    (~faulted /\ Len(file) > 0 /\ HasPending(file[1]))
        => file[1].pending[1].value # file[1].last_count[1]

\* C5: a confirmation message for v is sent at time t only if every successful
\* observation since some time <= t - W was v.
C5_ConfirmedOnlyAfterWindow ==
    lastEvent # <<>> =>
        /\ run[1].value = lastEvent[1].new
        /\ now - run[1].since >= DRIFT_CONFIRM_SECONDS

\* C6: the first successful observation v with no state file hands save_state the
\* state {last_count: v} without pending (which becomes the file when the write
\* succeeds) and sends no message, for every v including 0.
C6_Step ==
    (ObservedCycle /\ Len(file) = 0) =>
        /\ lastEvent' = <<>>
        /\ wrote' # <<>>
        /\ wrote'[1].state = [last_count |-> <<lastObs'[1]>>, pending |-> <<>>]
        /\ wrote'[1].ok => file' = <<wrote'[1].state>>

\* C6: every step taken without a state file initialises as C6_Step says.
C6_FirstObservation == [][C6_Step]_vars

C6_Witness ==
    /\ lastObs = <<0>>
    /\ loaded = <<EmptyState>>
    /\ file = <<[last_count |-> <<0>>, pending |-> <<>>]>>
    /\ lastEvent = <<>>

\* ------------------------------------------------- claims on the ladder
TaskIds == 1..Len(tasks)

Trace(i) == tasks[i].trace

\* position of a step in the ladder
StepNo(s) == CHOOSE k \in 1..Len(Steps) : Steps[k] = s

\* the messages of a trace, in order
Notifications(tr) == SelectSeq(tr, LAMBDA e : e[1] = "notify")

\* the action requests of a trace, in order
Requests(tr) == SelectSeq(tr, LAMBDA e : e[1] = "act")

\* C7: once the recheck after a step reports the device alive, no action request
\* follows in that task, so no later step of the ladder is ever invoked: after an alive
\* recheck of reset neither reboot nor usb_reset, after one of reboot no usb_reset.
C7_ShortCircuit ==
    \A i \in TaskIds :
        \A j \in 1..Len(Trace(i)) :
            (Trace(i)[j][1] = "recheck" /\ Trace(i)[j][3] = "alive") =>
                \A m \in 1..Len(Trace(i)) :
                    Trace(i)[m][1] = "act" =>
                        (m < j /\ StepNo(Trace(i)[m][2]) <= StepNo(Trace(i)[j][2]))

C7_Witness ==
    \E i \in TaskIds :
        /\ tasks[i].pc = "done"
        /\ \E j \in 1..Len(Trace(i)) : Trace(i)[j] = <<"recheck", "reset", "alive">>
        /\ Requests(Trace(i)) = <<<<"act", "reset", "ok">>>>

\* C8: a task that has ended after three successful action requests, with no recheck
\* reporting alive, has sent exactly four messages: reset start, reboot start,
\* usb_reset start, give up.
C8_FullExhaustion ==
    \A i \in TaskIds :
        (/\ tasks[i].pc = "done"
         /\ Requests(Trace(i)) = <<<<"act", "reset", "ok">>, <<"act", "reboot", "ok">>,
                                   <<"act", "usb_reset", "ok">>>>
         /\ \A j \in 1..Len(Trace(i)) :
                ~(Trace(i)[j][1] = "recheck" /\ Trace(i)[j][3] = "alive"))
        => Notifications(Trace(i)) =
               <<<<"notify", "reset", "start">>, <<"notify", "reboot", "start">>,
                 <<"notify", "usb_reset", "start">>, <<"notify", "", "give_up">>>>

C8_Witness ==
    \E i \in TaskIds :
        /\ tasks[i].pc = "done"
        /\ Len(Requests(Trace(i))) = 3
        /\ Trace(i)[Len(Trace(i))] = <<"notify", "", "give_up">>
        /\ Len(Notifications(Trace(i))) = 4

\* C9: a failed action request is followed by the error message naming that action
\* and by nothing else (no request, no settle wait, no recheck), and no action is
\* requested twice in one task.
C9_ActionErrorAborts ==
    \A i \in TaskIds :
        /\ \A j \in 1..Len(Trace(i)) :
              (Trace(i)[j][1] = "act" /\ Trace(i)[j][3] = "failed") =>
                  \/ j = Len(Trace(i)) /\ tasks[i].pc = "err_notify"
                  \/ /\ j + 1 = Len(Trace(i))
                     /\ Trace(i)[j + 1] = <<"notify", Trace(i)[j][2], "error">>
                     /\ tasks[i].pc = "done"
        /\ \A j, m \in 1..Len(Trace(i)) :
              (Trace(i)[j][1] = "act" /\ Trace(i)[m][1] = "act"
                  /\ Trace(i)[j][2] = Trace(i)[m][2]) => j = m

C9_Witness ==
    \E i \in TaskIds :
        /\ tasks[i].pc = "done"
        /\ Len(Trace(i)) >= 2
        /\ Trace(i)[Len(Trace(i)) - 1] = <<"act", "reboot", "failed">>
        /\ Trace(i)[Len(Trace(i))] = <<"notify", "reboot", "error">>

C11_ConfirmedSubset ==
    seen2 # <<>> =>
        /\ dead2 = SelectSeq(dead1, LAMBDA imei : seen2[imei] # "alive")
        /\ Range(dead2) \subseteq Range(dead1)
        /\ \A imei \in ImeiSet \ Range(dead1) : imei \notin Range(dead2)
        /\ tasks # <<>> => [i \in 1..Len(tasks) |-> tasks[i].imei] = dead2

C11_Witness ==
    /\ seen2 # <<>>
    /\ tasks # <<>>
    /\ \E a \in Range(dead1) : a \in Range(dead2)
    /\ \E b \in ImeiSet \ Range(dead1) : seen2[b] = "offline" /\ b \notin Range(dead2)

C13_TwoPollGate ==
    \A i \in TaskIds :
        Requests(Trace(i)) # <<>> =>
            /\ seen2 # <<>>
            /\ tasks[i].imei \in Range(dead1)
            /\ seen2[tasks[i].imei] # "alive"

\* ---------------------------------------------- claims on the daily run lock
\* db_start_run returned True and db_finish_run has not been executed yet
Holding(w) == wk[w].pc \in {"fetch", "test", "tally", "finish"}

\* two calls of db_start_run, both started while there was no row, have both returned
FreshRace(a, b) ==
    /\ a # b
    /\ wk[a].fresh /\ wk[b].fresh
    /\ wk[a].got # <<>> /\ wk[b].got # <<>>

\* C14 as stated: of two calls racing for a (fleet, day) without row, the one whose
\* INSERT created the row returns True; the other reads running or success, returns
\* False and tests no modem.
C14_OneAcquires ==
    \A a, b \in Workers :
        (FreshRace(a, b) /\ wk[a].created) =>
            /\ wk[a].got = <<TRUE>>
            /\ wk[b].got = <<FALSE>>
            /\ wk[b].seen \in {<<"running">>, <<"success">>}
            /\ wk[b].ok + wk[b].fail = 0

\* C14 as amended: exactly one of the two INSERTs creates the row and that call returns
\* True; the other call reads the status and returns False, testing no modem, unless it
\* reads failed (the first run is already over) and retry of failed runs is enabled, in
\* which case it returns True as a retry.
C14_FreshRaceOutcome ==
    \A a, b \in Workers :
        FreshRace(a, b) =>
            /\ wk[a].created # wk[b].created
            /\ wk[a].created =>
                  /\ wk[a].got = <<TRUE>>
                  /\ wk[b].seen # <<>>
                  /\ IF wk[b].seen = <<"failed">> /\ retry
                     THEN wk[b].got = <<TRUE>>
                     ELSE /\ wk[b].got = <<FALSE>>
                          /\ wk[b].total = 0
                          /\ wk[b].ok + wk[b].fail = 0

C14_Witness ==
    \E a, b \in Workers :
        /\ FreshRace(a, b)
        /\ wk[a].created
        /\ wk[a].ok + wk[a].fail > 0
        /\ wk[b].seen = <<"running">>
        /\ wk[b].got = <<FALSE>>

\* C15: at most one worker at a time holds the run of the (fleet, day).
C15_SingleHolder ==
    Cardinality({w \in Workers : Holding(w)}) <= 1

\* the decisions of db_start_run on the status it read: a call returns True only if its
\* INSERT created the row, or it read failed and retry is enabled; a call that read
\* running or success (or failed with retry disabled) returns False and tests no modem
StartRunDecision ==
    \A w \in Workers :
        /\ wk[w].got = <<TRUE>> => (wk[w].created \/ (wk[w].seen = <<"failed">> /\ retry))
        /\ Holding(w) => wk[w].got = <<TRUE>>
        /\ (wk[w].seen \in {<<"running">>, <<"success">>}
              \/ (wk[w].seen = <<"failed">> /\ ~retry))
            => (wk[w].got = <<FALSE>> /\ wk[w].pc = "idle" /\ wk[w].ok + wk[w].fail = 0)

\* C16: db_start_run decides as StartRunDecision says, and the row a call takes over
\* with its UPDATE has status failed at that moment, never running or success.
C16_StartRunPolicy ==
    /\ StartRunDecision
    /\ \A w \in Workers : wk[w].over \in {<<>>, <<"failed">>}

\* ------------------------------------- claims on the drift monitor's errors
\* C17: a cycle whose poll fails ends without an observation (the poll is not repeated
\* in the cycle), without reading or writing the state, with the state file as it was
\* (last_count, pending and first_seen included) and without a message.
C17_Step ==
    (cycles' = cycles + 1 /\ lastObs' = <<>>) =>
        /\ file' = file
        /\ loaded' = <<>>
        /\ wrote' = <<>>
        /\ lastEvent' = <<>>

\* C17: every step of the drift monitor is a C17_Step.
C17_FetchErrorSkips == [][C17_Step]_vars

C17_Witness ==
    /\ cycles > 0
    /\ lastObs = <<>>
    /\ Len(file) > 0
    /\ HasPending(file[1])
    /\ lastEvent = <<>>

\* C18: when save_state fails, the message decided by the cycle is still sent and the
\* state file stays as it was; and, as long as every load_state succeeds, each
\* confirmation message either repeats the last one sent (a duplicate) or starts from
\* the count the last one announced.
C18_Step ==
    ObservedCycle =>
        /\ (wrote' # <<>> /\ ~wrote'[1].ok) =>
              /\ file' = file
              /\ lastEvent' = Decide(loaded'[1], lastObs'[1], now).event
        /\ (~misread' /\ lastEvent' # <<>> /\ told # <<>>) =>
              \/ lastEvent' = told
              \/ lastEvent'[1].old = told[1].new

\* C18: every step of the drift monitor is a C18_Step.
C18_PersistErrorSafe == [][C18_Step]_vars

\* ------------------------------------------------ claims on the state file
\* the state file holds a complete document
Intact(d) == Len(d["f"]) > 0 => Len(json_loads(d["f"][1])) > 0

\* C19, the steps: only the rename changes the state file, and it makes it the complete
\* text of the state being saved; every other step of a save, and its abort at any
\* point, leaves the state file as it was.
C19_Step ==
    \/ disk'["f"] = disk["f"]
    \/ /\ spc = "replace"
       /\ spc' = "idle"
       /\ disk'["f"] = <<json_dumps(job)>>

\* C19: at every moment the state file is missing or complete, so load_state returns
\* a state that was saved whole (the empty state only while no file exists), and the
\* file changes only as C19_Step says.
C19_AtomicSave ==
    /\ [](/\ Intact(disk)
          /\ LoadFromDisk(disk) \in SaveStates \cup {EmptyState}
          /\ LoadFromDisk(disk) = EmptyState => Len(disk["f"]) = 0)
    /\ [][C19_Step]_vars

C19_Witness ==
    /\ spc = "idle"
    /\ Len(disk["f"]) > 0
    /\ HasPending(LoadFromDisk(disk))
    /\ Len(disk["tmp"]) > 0
    /\ Len(disk["tmp"][1]) \in {1, 2, 3}
    /\ Len(json_loads(disk["tmp"][1])) = 0

\* ------------------------------------------------ claims on the flag policy
\* a value that is truthy: boolean true, a number other than zero, or one of the
\* accepted words in any letter case, whitespace around it not counting
Truthy(v) ==
    \/ v.t = "bool" /\ v.s = "true"
    \/ v.t = "num" /\ v.s # "0"
    \/ v.t = "str" /\ v.s \in {"yes", "true", "1", "ok", "online"}

\* a value that is the word true: boolean true, or the string "true" in any letter case
\* with no whitespace around it
TrueWord(v) ==
    \/ v.t = "bool" /\ v.s = "true"
    \/ v.t = "str" /\ v.s = "true" /\ ~v.pad

\* C20 as stated: a record is classified offline iff its online indicator is not truthy
\* and none of its busy flags is truthy.
C20_FlagPolicy ==
    verdict # <<>> =>
        (verdict[1] <=> (/\ ~Truthy(raw.IS_ONLINE)
                         /\ ~Truthy(raw.IS_LOCKED)
                         /\ ~Truthy(raw.IS_REBOOTING)
                         /\ ~Truthy(raw.IS_ROTATED)))

\* C20 as amended: a record is classified offline iff its online indicator is not truthy
\* and none of its busy flags is the word true; so a record that is not online and has
\* IS_REBOOTING "true" is not classified offline.
C20_FlagPolicyTrueWord ==
    verdict # <<>> =>
        /\ verdict[1] <=> (/\ ~Truthy(raw.IS_ONLINE)
                           /\ ~TrueWord(raw.IS_LOCKED)
                           /\ ~TrueWord(raw.IS_REBOOTING)
                           /\ ~TrueWord(raw.IS_ROTATED))
        /\ (~Truthy(raw.IS_ONLINE) /\ TrueWord(raw.IS_REBOOTING)) => ~verdict[1]

C20_Witness ==
    /\ verdict = <<FALSE>>
    /\ raw.IS_ONLINE = Value("bool", "false", FALSE, FALSE)
    /\ raw.IS_REBOOTING = Value("str", "true", FALSE, FALSE)
    /\ raw.IS_LOCKED = Missing
    /\ raw.IS_ROTATED = Value("str", "false", FALSE, FALSE)

\* ------------------------------------------------------------------- C21
\* C21: under the ping policy a record is classified dead if and only if its ping
\* statistics are absent or empty, or report 100% loss; every record with statistics
\* that report another loss is classified alive.
C21_PingPolicy ==
    verdict # <<>> =>
        (verdict[1] <=> (raw.kind # "text" \/ raw.loss = 100))

\* a round trip of 100 ms with 10% loss has been classified, and as alive
C21_Witness ==
    /\ verdict = <<FALSE>>
    /\ raw.kind = "text" /\ raw.rtt = 100 /\ raw.loss = 10

\* ------------------------------------------------------------------- C22
\* position j of a trace is the request of step k
IsRequest(tr, j, k) == tr[j][1] = "act" /\ tr[j][2] = Steps[k]

\* C22: inside one recovery sequence the steps are strictly sequential: the request
\* of every step directly follows its own start message, and the request of reboot
\* (of usb_reset) comes only after the request of reset (of reboot), then its settle
\* wait, then its recheck have completed, in this order.
C22_Sequential ==
    \A i \in TaskIds :
        LET tr == Trace(i) IN
        \A j \in 1..Len(tr) : \A k \in 1..Len(Steps) :
            IsRequest(tr, j, k) =>
                /\ j > 1 /\ tr[j - 1] = <<"notify", Steps[k], "start">>
                /\ k > 1 =>
                     \E a \in 1..j : \E b \in a + 1..j : \E c \in b + 1..j - 1 :
                        /\ IsRequest(tr, a, k - 1)
                        /\ tr[b] = <<"sleep", Steps[k - 1], "">>
                        /\ tr[c][1] = "recheck" /\ tr[c][2] = Steps[k - 1]

\* a sequence has issued the usb_reset request
C22_Witness ==
    \E i \in TaskIds : \E j \in 1..Len(Trace(i)) : IsRequest(Trace(i), j, 3)

\* ------------------------------------------------------------------- C23
\* what the sequence of task i can do next
TaskStep(i) ==
    \/ StartNotify(i) \/ Action(i) \/ SettleSleep(i) \/ RecheckFailed(i) \/ Recheck(i)
    \/ OkNotify(i) \/ GiveUpNotify(i) \/ ErrNotify(i)

\* no step of one sequence changes another sequence
C23_Step ==
    Len(tasks') = Len(tasks) =>
        \A i \in TaskIds : \A j \in TaskIds \ {i} :
            tasks'[i] # tasks[i] => tasks'[j] = tasks[j]

\* C23: the recovery sequences of one sweep are independent: a sequence that has not
\* ended can always take its next step, whatever wait, call or error the other
\* sequences are in, and a step of one sequence leaves every other sequence as it was.
C23_Independent ==
    /\ [](\A i \in TaskIds : tasks[i].pc # "done" => ENABLED TaskStep(i))
    /\ [][C23_Step]_vars

\* one sequence is still in its first settle wait while another one has gone through
\* the whole ladder
C23_Witness ==
    \E i \in TaskIds : \E j \in TaskIds \ {i} :
        /\ tasks[i].pc = "sleep" /\ tasks[i].k = 1
        /\ tasks[j].pc = "done"
        /\ Trace(j)[Len(Trace(j))] = <<"notify", "", "give_up">>

\* ------------------------------------------------------------------- C24
\* the message task i handed to tg_send in this step, <<>> if it sent none
SentBy(i) ==
    IF /\ Len(tasks'[i].trace) = Len(tasks[i].trace) + 1
       /\ tasks'[i].trace[Len(tasks'[i].trace)][1] = "notify"
    THEN <<tasks'[i].trace[Len(tasks'[i].trace)]>>
    ELSE <<>>

\* a message of the ladder was not delivered: the task goes on to the request the
\* message announced, or ends as it would have; the sweep creates its tasks
C24_LadderStep ==
    (~lost /\ lost') =>
        /\ Len(tasks') = Len(tasks) =>
              \A i \in TaskIds :
                  SentBy(i) # <<>> =>
                      IF SentBy(i)[1][3] = "start"
                      THEN tasks'[i].pc = "act" /\ tasks'[i].k = tasks[i].k
                      ELSE tasks'[i].pc = "done"
        /\ Len(tasks') # Len(tasks) =>
              /\ ppc' = "gather"
              /\ \A i \in 1..Len(tasks') : tasks'[i] = NewTask(tasks'[i].imei)

\* the confirmation message of the drift detector was not delivered: the confirmed
\* state is handed to save_state all the same, and stored unless the write fails
C24_DriftStep ==
    (ObservedCycle /\ delivered' = <<FALSE>>) =>
        /\ wrote' # <<>>
        /\ wrote'[1].state = ConfirmState(loaded'[1], lastEvent'[1].new)
        /\ wrote'[1].ok => file' = <<wrote'[1].state>>

C24_DriftWitness ==
    /\ delivered = <<FALSE>>
    /\ wrote # <<>> /\ wrote[1].ok
    /\ file = <<[last_count |-> <<lastEvent[1].new>>, pending |-> <<>>]>>

\* ------------------------------------------------------------------- C25
\* C25: after startup no runtime error of a tick (the connection cannot be opened, a
\* query fails) ends the scheduler loop: the loop sleeps and goes on to its next tick.
C25_LoopSurvives ==
    /\ sched.pc # "exited"
    /\ sched.err # "none" => sched.pc \in {"close", "sleep", "connect"}

\* ------------------------------------------------------------------- C26
\* what a cycle does when replayed from the persisted state f with observation (t, v)
Replay(f, t, v) ==
    LET d == Decide(load_state(f, TRUE), v, t)
    IN  [event |-> d.event, file |-> IF d.save THEN save_state(f, d.state, TRUE) ELSE f]

\* the cycle of this step read its state file and wrote it without a fault
CleanCycle ==
    /\ ObservedCycle
    /\ loaded' = <<load_state(file, TRUE)>>
    /\ wrote' # <<>> => wrote'[1].ok

C26_Step ==
    CleanCycle =>
        /\ lastEvent' = Replay(file, now, lastObs'[1]).event
        /\ file' = Replay(file, now, lastObs'[1]).file

SameNumber(x, y) ==
    LET e == IF x.exp < y.exp THEN x.exp ELSE y.exp
    IN  x.mant * 10 ^ (x.exp - e) = y.mant * 10 ^ (y.exp - e)

\* the download field is a string of a well-formed number and bps with a k, m or g
\* before it, or none
Recognised(v) == v.t = "str" /\ v.num.ok /\ v.unit.prefix # "?"

\* the rule for the attempt that has been parsed
C27_Rule ==
    verdict # <<>> =>
        LET v == raw.download
            got == parse_rate_to_mbps(v)
        IN  /\ Recognised(v) =>
                /\ got # <<>>
                /\ SameNumber(got[1], [mant |-> v.num.mant,
                                        exp |-> v.num.exp + UnitExp(v.unit.prefix)])
            /\ (v.t # "str" \/ v.unit.prefix = "?") =>
                /\ got = <<>>
                /\ ~verdict[1].success
                /\ verdict[1].download_mbps = <<>>
                /\ verdict[1].error = "parse_failed"

\* the three examples: 52.79mbps is 52.79, 120 kbps is 0.12, 1.2 gbps is 1200.0
C27_Examples ==
    \A v \in RateInputs :
        /\ (v.t = "str" /\ v.num.mant = 5279 /\ v.unit.text = Chars("mbps")) =>
                SameNumber(parse_rate_to_mbps(v)[1], [mant |-> 5279, exp |-> -2])
        /\ (v.t = "str" /\ v.num.mant = 120 /\ v.unit.text = Chars("kbps")) =>
                SameNumber(parse_rate_to_mbps(v)[1], [mant |-> 12, exp |-> -2])
        /\ (v.t = "str" /\ v.num.mant = 12 /\ v.unit.text = Chars("gbps")) =>
                SameNumber(parse_rate_to_mbps(v)[1], [mant |-> 1200, exp |-> 0])

Finishes(w) == Holding(w) /\ wk'[w].pc = "idle" /\ row' # row

\* what db_finish_run stores: failed with zero counters after a failed fetch, else
\* success exactly if no modem failed, and counters with ok + fail = total
C28_FinishStep ==
    \A w \in Workers :
        Finishes(w) =>
            LET c == row'[1].counters[1] IN
            /\ row'[1].status \in {"success", "failed"}
            /\ c.ok + c.fail = c.total
            /\ IF wk[w].pc = "fetch"
               THEN row'[1].status = "failed" /\ c.total = 0 /\ c.ok = 0 /\ c.fail = 0
               ELSE /\ wk[w].pc = "finish"
                    /\ row'[1].status = "success" <=> c.fail = 0
                    /\ c.total = wk[w].total /\ c.fail = wk[w].fail

\* C28: every run that has acquired the lock of its fleet and day, and is not ended
\* from outside, eventually leaves the status running by setting success or failed;
\* success exactly if no modem failed, failed with zero counters after a failed fetch
\* of the modem list, and the stored counters satisfy ok + fail = total.
C28_RunFinishes ==
    /\ \A w \in Workers :
          [](Holding(w) => <>(row # <<>> /\ row[1].status \in {"success", "failed"}))
    /\ [][C28_FinishStep]_vars

\* ------------------------------------------------------------------- C29
\* worker w makes an attempt in this step
Attempts(w) == wk[w].pc = "test" /\ wk'[w].pc \in {"test", "tally"} /\ wk'[w] # wk[w]

\* the loop over the attempts and the tally of the modem
C29_Loop(w) ==
    /\ Attempts(w) =>
          /\ wk'[w].att = wk[w].att + 1
          /\ wk'[w].att <= ATTEMPTS
          /\ wk[w].att > 0 => ~wk[w].succ
          /\ wk'[w].succ => wk'[w].pc = "tally"
          /\ wk'[w].pc = "tally" => (wk'[w].succ \/ wk'[w].att = ATTEMPTS)
    /\ (wk[w].pc = "tally" /\ wk'[w].pc \in {"test", "finish"}) =>
          /\ wk'[w].ok = wk[w].ok + (IF wk[w].succ THEN 1 ELSE 0)
          /\ wk'[w].fail = wk[w].fail + (IF wk[w].succ THEN 0 ELSE 1)

\* C29: in one run each modem gets at most ATTEMPTS attempts numbered from 1, a
\* further one only after a failed one and none after a success; exactly one result
\* row is inserted per attempt; the modem counts as ok iff its last attempt succeeded.
C29_OneRowPerAttempt ==
    [][\A w \in Workers :
          /\ C29_Loop(w)
          /\ Attempts(w) =>
                wk'[w].ins = <<[attempt |-> wk'[w].att, success |-> wk'[w].succ]>>]_vars

\* C29 as the code has it: at most one result row per attempt, with the number and
\* the outcome of the attempt; a successful attempt always has its row, a failed one
\* has none when db_insert_result raised.
C29_AtMostOneRowPerAttempt ==
    [][\A w \in Workers :
          /\ C29_Loop(w)
          /\ Attempts(w) =>
                /\ wk'[w].ins \in {<<>>, <<[attempt |-> wk'[w].att,
                                            success |-> wk'[w].succ]>>}
                /\ wk'[w].succ => wk'[w].ins # <<>>]_vars

\* a modem has succeeded at its second attempt after a first one that left no row
C29_Witness ==
    \E w \in Workers :
        /\ wk[w].pc = "tally" /\ wk[w].att = 2 /\ wk[w].succ
        /\ wk[w].ins = <<[attempt |-> 2, success |-> TRUE]>>

\* ------------------------------------------------------------------- C30
\* the fleet whose run_once_for_server this step has called, <<>> if none
Served == IF mon'.i = mon.i + 1 /\ mon.i <= Len(FleetIds) THEN <<FleetIds[mon.i]>> ELSE <<>>

\* what the state file of a fleet can become in one cycle, from that file alone
Outcomes(f, t) ==
    {f} \cup {save_state(f, Decide(load_state(f, r), v, t).state, w) :
                v \in Counts, r \in BOOLEAN, w \in BOOLEAN}

\* a step of main for one fleet moves on to the next fleet, changes no state file but
\* that fleet's, and that one as a function of its own content
C30_Step ==
    /\ mon'.i # mon.i =>
          \/ mon'.i = mon.i + 1
          \/ mon.i = Len(FleetIds) + 1 /\ mon'.i = 1
    /\ Served # <<>> =>
          /\ \A g \in Range(FleetIds) \ {Served[1]} : mon'.files[g] = mon.files[g]
          /\ mon'.files[Served[1]] \in Outcomes(mon.files[Served[1]], now)

Started(f) == sched'.threads[f] > sched.threads[f]

\* C31: a daily run of a fleet is started only at an instant whose time of day in the
\* fleet's time zone is at or after the run time and, unless late runs are allowed,
\* earlier than the run time plus the window; the day handed to the run, its lock
\* key, is the fleet's local calendar day at that instant.
C31_DueWindow ==
    [][\A f \in Range(Servers) :
        Started(f) =>
            LET s == sched'.last[1]
                local == s.utc + timezone[f]
                tod == local % 1440
                at == sched.at.hour * 60 + sched.at.minute
            IN  /\ s.fleet = f
                /\ s.day = local \div 1440
                /\ tod >= at
                /\ sched.late \/ tod < at + RUN_WINDOW_MINUTES]_vars

\* a run of the fleet east of UTC was started on its local day 1 while it was still
\* day 0 in UTC, late runs not allowed
C31_Witness ==
    /\ ~sched.late
    /\ sched.last # <<>>
    /\ sched.last[1].fleet = "b" /\ sched.last[1].day = 1 /\ sched.last[1].utc < 1440

\* C32: in one scheduler process a fleet has at most one run thread, and it has one
\* exactly while its id is in the running set; the end of a thread, by return or by
\* exception, takes the id out of the set; and whenever the pass stands at a fleet
\* whose id is not in the set, a thread for it can be started.
C32_OneThreadPerFleet ==
    /\ [](\A f \in Range(Servers) : /\ sched.threads[f] <= 1
                             /\ sched.threads[f] = 1 <=> f \in sched.running)
    /\ [][\A f \in Range(Servers) :
            sched'.threads[f] < sched.threads[f] => f \notin sched'.running]_vars
    /\ [](sched.pc = "scan" /\ Servers[sched.i] \notin sched.running
            => ENABLED (ScanServer /\ Started(Servers[sched.i])))

\* a later tick stands at a fleet whose earlier thread has ended, while the thread of
\* the other fleet is still running
C32_Witness ==
    /\ sched.ticks >= 1 /\ sched.pc = "scan" /\ Servers[sched.i] = "a"
    /\ sched.last # <<>> /\ sched.last[1].fleet = "a"
    /\ sched.running = {"b"}

\* ----------------------------------------------- claims on the sweep
\* C33: a sweep whose second poll failed has ended with no recovery task started, so
\* no action requested, and no message sent, however many devices the first poll
\* showed offline.
C33_SecondPollFailure ==
    (ppc = "done" /\ dead1 # <<>> /\ seen2 = <<>>)
        => (tasks = <<>> /\ dead2 = <<>> /\ sweepLog = <<>> /\ ~lost)

\* the second poll failed after a first poll that showed two devices offline
C33_Witness ==
    ppc = "done" /\ Len(dead1) = 2 /\ dead1[1] # dead1[2] /\ seen2 = <<>>

\* the settle waits of a trace
Sleeps(tr) == SelectSeq(tr, LAMBDA e : e[1] = "sleep")

\* the terminal messages of a trace: recovered, give up, error
Terminals(tr) ==
    SelectSeq(tr, LAMBDA e : e[1] = "notify" /\ e[3] \in {"recovered", "give_up", "error"})

\* what C34 says of every state of a sequence
C34_Bounded ==
    \A i \in TaskIds :
        LET tr == Trace(i) IN
        /\ Len(Requests(tr)) <= 3
        /\ \A n \in 1..Len(Requests(tr)) : Requests(tr)[n][2] = Steps[n]
        /\ Len(Sleeps(tr)) <= 3
        /\ Len(Terminals(tr)) = IF tasks[i].pc = "done" THEN 1 ELSE 0
        /\ tasks[i].pc = "done" => Terminals(tr) = <<tr[Len(tr)]>>

\* C34: every recovery sequence terminates, and at every moment it has requested at
\* most three actions, the n-th of them being the n-th step of reset, reboot,
\* usb_reset, has waited at most three times, and has sent one terminal message
\* (recovered, give up or error) exactly when it has ended, as its last act.
C34_Terminates ==
    /\ []C34_Bounded
    /\ <>[](\A i \in TaskIds : tasks[i].pc = "done")

\* two sequences have ended, one after three requests and one by an error
C34_Witness ==
    \E i \in TaskIds : \E j \in TaskIds \ {i} :
        /\ tasks[i].pc = "done" /\ Len(Requests(Trace(i))) = 3 /\ Len(Sleeps(Trace(i))) = 3
        /\ tasks[j].pc = "done" /\ Trace(j)[Len(Trace(j))][3] = "error"

\* ----------------------------------------------- claims on the recheck
\* the records of the snapshot that carry the IMEI asked for
Carriers == {j \in 1..Len(raw.modems) : raw.modems[j].imei = raw.imei}

\* the record the lookup answers with: the last carrier
Answer == raw.modems[CHOOSE j \in Carriers : \A n \in Carriers : n <= j]

\* the classifier's word on that record: under the flag policy offline means not
\* online and no busy flag, under the ping policy no statistics or a total loss
SaidOffline ==
    IF raw.policy = "flag" THEN ~Answer.online /\ ~Answer.busy
    ELSE Answer.ping_stats \in {<<>>, PingText(-1, 100)}

\* C35: the recheck of a step leads to the success message of that step if and only
\* if the poll gives a snapshot that holds a record of the device and the classifier
\* does not call that record offline: a device absent from the snapshot is not
\* recovered, and a device that is not online but has a busy flag is.
C35_RecheckSuccess ==
    verdict # <<>> =>
        /\ verdict[1].pc = "ok_notify"
              <=> (~raw.fails /\ Carriers # {} /\ ~SaidOffline)
        /\ verdict[1].pc = "ok_notify" => verdict[1].k = raw.k

\* flag policy: the device is in the snapshot, not online, with a busy flag, and the
\* step ends in its success message
C35_Witness ==
    /\ verdict # <<>> /\ verdict[1].pc = "ok_notify"
    /\ raw.policy = "flag" /\ Carriers # {} /\ ~Answer.online /\ Answer.busy

\* a record without identifier is in no offline list and has no sequence
C36_NoAnonymous ==
    /\ NoImei \notin Range(dead1) \cup Range(dead2)
    /\ \A i \in TaskIds : tasks[i].imei # NoImei

\* C36: the sequences of one sweep belong to different device identifiers, whatever
\* the snapshots hold, and a record without identifier is in no offline list and has
\* no sequence.
C36_OneSequencePerImei ==
    /\ \A i \in TaskIds : \A j \in TaskIds : tasks[i].imei = tasks[j].imei => i = j
    /\ C36_NoAnonymous

\* ----------------------------------------------- claims on settling
\* the value every cycle has observed, and the time the first of them ran, have been
\* followed by at least the window
WindowPassed == run # <<>> /\ now - run[1].since >= DRIFT_CONFIRM_SECONDS

\* the persisted state is the value observed, confirmed, with nothing pending
Settled ==
    lastObs # <<>> /\ file = <<[last_count |-> lastObs, pending |-> <<>>]>>

Crashed == lastEvent # <<>> /\ wrote = <<>>

\* the confirmed count of the state file is replaced by another one in a cycle that
\* read the file as initialised
Advances ==
    /\ Len(file) > 0 /\ Len(file') > 0
    /\ file'[1].last_count # file[1].last_count
    /\ ~Uninitialized(loaded'[1])

C38_Step ==
    /\ Advances => lastEvent' = DriftConfirmed(file[1].last_count[1],
                                               file'[1].last_count[1])
    /\ (lastEvent' # <<>> /\ wrote' = <<>>) => file' = file
    /\ (Crashed /\ ObservedCycle /\ lastObs' = lastObs /\ loaded' = <<file[1]>>)
          => lastEvent' = lastEvent

\* C38: the confirmed count of the state file advances (initialisation apart) only in
\* a cycle that has attempted the message announcing the new count; a cycle that ends
\* between the send and the save leaves the state file as it was, and the next cycle
\* that reads it and observes the same count sends the same message again.
C38_NotifyBeforePersist == [][C38_Step]_vars

\* a confirmation has been sent, its cycle ended before the save, and the state file
\* still holds the pending block and the old count
C38_Witness ==
    /\ Crashed /\ Len(file) > 0 /\ HasPending(file[1])
    /\ file[1].last_count = <<lastEvent[1].old>>
    /\ file[1].pending[1].value = lastEvent[1].new
    /\ lastEvent[1].old # lastEvent[1].new

\* ------------------------------------------- claims on an unreadable state
\* a cycle with a successful fetch in which, for the first time, the state file
\* exists and cannot be read or parsed
FirstMisread == ObservedCycle /\ ~misread /\ misread'

C39_Step ==
    FirstMisread =>
        LET fresh == [last_count |-> lastObs', pending |-> <<>>]
        IN  /\ loaded' = <<EmptyState>>
            /\ lastEvent' = <<>>
            /\ wrote' # <<>> /\ wrote'[1].state = fresh
            /\ file' = IF wrote'[1].ok THEN <<fresh>> ELSE file

\* C39: a cycle whose state file cannot be read or parsed decides from the empty
\* state: it sends no message and saves the current observation as the confirmed
\* count, with no pending block, whatever the file held before.
C39_UnreadableIsUninitialized == [][C39_Step]_vars

\* the file could not be read, the observation is now the confirmed count with nothing
\* pending and no message, although the last message announced another count
C39_Witness ==
    /\ misread /\ loaded = <<EmptyState>> /\ lastEvent = <<>>
    /\ lastObs # <<>> /\ file = <<[last_count |-> lastObs, pending |-> <<>>]>>
    /\ told # <<>> /\ told[1].new # lastObs[1]

====
